---- MODULE Spec2Model ----
\* TaskScheduler (scheduler.ts), CommentQueue (commentQueue.ts) and the task
\* registrations of main (index.ts) of the T-69 Moltbook agent.
\*
\* Time is counted in ticks of 10 seconds.  A timer is a record [id, left]:
\* `left` is the number of ticks until it is due.  A due timer may fire late
\* (the event loop can be busy), never early.
EXTENDS Integers, Sequences, FiniteSets, TLC

\* ---------------------------------------------------------------- bounds
\* start() calls explored in one behaviour
MaxStarts == 2
\* longest interval (ticks) of the tasks other than the drain task, whose
\* intervals (30 to 240 minutes) are scaled down to 1..MaxDelay ticks
MaxDelay == 2

\* IDs put into the ID list that a behaviour of the marking methods drives long
MaxInserts == 501
\* IDs put into each of the other two ID lists in such a behaviour
ShortLen == 1
\* StateManager calls in one behaviour of the whole state store
MaxCalls == 2

\* the clock runs up to MaxClock ticks
MaxClock == 64

\* posts made through updateLastPostTime()
MaxPosts == 2

\* the peers with an affinity record in the state file of an earlier run
MaxPeers == 7

\* the moltbook.follow calls that throw
MaxFailures == 1

\* the record* calls made on the affinities
MaxRecords == 5

\* isSleepTime is asked about the hours 0..MaxHour
MaxHour == 25

\* checkFeed() and maybeCreatePost() calls in one behaviour
MaxCycles == 2
\* posts in the feed that tries the throttle on comments to one author
MaxFeedLen == 12

\* jobs offered to enqueue in one behaviour
MaxJobs == 3
\* calendar days (UTC) a behaviour runs through
MaxDays == 2
\* initializeDailyCount is called with MAX_DAILY_COMMENTS - SeedSlack .. MAX_DAILY_COMMENTS
SeedSlack == 2

\* ------------------------------------------------------------- constants
\* const MAX_DAILY_COMMENTS = 45
MAX_DAILY_COMMENTS == 45
\* README: one comment per 20 seconds = 2 ticks of 10 seconds
MinSpacing == 2
\* TASK_INTERVALS.commentQueue = 0.5 minutes = 3 ticks of 10 seconds
CommentQueueInterval == 3

\* ------------------------------------------------------ registered tasks
\* Registration order of main(); the scheduler's Map iterates in this order.
\* feed-check stands for the four sleep-gated tasks, which are configured
\* alike, and for skill-check, which is feed-check with enabled() always true.
TaskOrder == <<"feed-check", "comment-queue">>

NumTasks == Len(TaskOrder)

Tasks == {TaskOrder[i] : i \in 1..NumTasks}

\* config.runOnStart ?? true
RunOnStart(t) == t # "comment-queue"

\* config.enabled is set
HasEnabled(t) == t = "feed-check"

\* the drain interval mistyped as a sixth of a minute
IntervalMin_short(t) == 1

IntervalMin(t) == IF t = "comment-queue" THEN CommentQueueInterval ELSE 1

IntervalMax(t) == IF t = "comment-queue" THEN CommentQueueInterval ELSE MaxDelay

\* the draw with the range taken one tick too wide
getRandomInterval_wide(min, max) == min..(max + 1)

\* minMs + Math.random() * (maxMs - minMs), in ticks
getRandomInterval(min, max) == min..max

\* the draws of getRandomInterval a handler can make: one per task of R (a
\* handler schedules a task at most once); the other tasks' entries are unused
DelayDraws(R) == {[t \in Tasks |-> IF t \in R THEN IF t = "feed-check" THEN d ELSE IntervalMin(t)
                                   ELSE IntervalMin(t)] :
                    d \in getRandomInterval(IntervalMin("feed-check"), IntervalMax("feed-check"))}

\* What a call of a task's config.fn() does: it awaits remote I/O and settles
\* in a later turn of the event loop ("pending"), or awaits I/O that never
\* answers ("hangs").  An fn that finds nothing to do settles in the turn it
\* was called in ("returns"): the drain task's fn on an empty queue.
FnModes == {"pending", "hangs"}

\* what the calls of fn made by one handler do: one entry per task of R
FnChoices(R) == {[t \in Tasks |-> IF t \in R THEN m ELSE "pending"] : m \in FnModes}

\* the tasks a start() loop can still run from position i on
RunFrom(i) == {TaskOrder[j] : j \in {j \in i..NumTasks : RunOnStart(TaskOrder[j])}}

\* the tasks a start() loop can still run or schedule from position i on
From(i) == {TaskOrder[j] : j \in i..NumTasks}

\* What a call of config.enabled() answers.
GateResults == {"yes", "no"}

\* The same, for a predicate that can raise.
GateResultsThrowing == {"yes", "no", "throws"}

VARIABLES
  tasks,       \* TaskScheduler.tasks: the registered names and configs, in insertion order
  running,     \* TaskScheduler.running
  isRunning,   \* TaskState.isRunning, per task
  timers,      \* per task: the timers set with setTimeout and not yet fired or cleared
  timerId,     \* TaskState.timerId, per task (0 = null)
  lastRunSet,  \* the tasks whose TaskState.lastRun the last handler assigned
  calls,       \* per task: the config.fn() calls awaited (who awaits, hung or not)
  loops,       \* per start() call: the position of its for-loop
  log,         \* the log lines written by the last handler
  escaped,     \* the last handler ended with an exception that nobody caught
  op,          \* the last handler
  queue,       \* CommentQueue.queue: the jobs waiting, oldest first
  dailyCount,  \* CommentQueue.dailyCount
  lastDate,    \* CommentQueue.lastDate (0 = null)
  today,       \* new Date().toISOString().slice(0, 10): the current UTC day
  clock,       \* new Date(): the time, in ticks of half a minute
  localDate,   \* the calendar date of the process's time zone
  accepted,    \* the jobs enqueue has accepted, in order
  sent,        \* the jobs handed to moltbook.createComment, in order
  posting,     \* the jobs whose createComment call is awaited
  nextJob,     \* the next job offered to enqueue
  ret,         \* what the last enqueue returned
  stats,       \* what the last handler's getStats call returned
  seed,        \* the count the counter was seeded with today, while no job was handed out since
  sinceWrite,  \* ticks since the last createComment call, up to CommentQueueInterval
  level,       \* what getActivityLevel() answers at the current hour
  beat,        \* what the last heartbeat() call did: remote calls and state-store writes
  state,       \* StateManager.state: the agent's state in memory
  file,        \* the content of the state file
  inserted,    \* per ID list: the IDs marked while not among the newest MAX_SEEN_IDS marked, in order
  again,       \* the last StateManager call repeated the call before it
  ncalls,      \* StateManager calls counted so far
  defaults,    \* the arrays and objects held by the module's DEFAULT_STATE
  aliased,     \* the fields of state that hold the very object DEFAULT_STATE holds
  answer,      \* what the last StateManager call returned
  offset,      \* the sign of the process's time-zone offset from UTC
  cycle,       \* the maybeFollowMolties call in flight: candidates left, follows made
  followCalls, \* the moltbook.follow calls settled, in order: the UTC day, and whether it succeeded
  call,        \* the remote call in flight, or the last one settled: its responses and delays
  feed         \* the checkFeed() call in flight and the remote writes issued so far

schedVars == <<tasks, running, isRunning, timers, timerId, calls, loops, log, escaped, lastRunSet>>

queueVars == <<queue, dailyCount, lastDate, today, clock, localDate, accepted, sent, posting, nextJob, ret, stats, seed>>

vars == <<tasks, running, isRunning, timers, timerId, calls, loops, log, escaped, lastRunSet, op,
          queue, dailyCount, lastDate, today, clock, localDate, accepted, sent, posting, nextJob,
          ret, stats, seed, sinceWrite, level, beat, state, file, inserted, again, ncalls,
          defaults, aliased, answer, offset, cycle, followCalls, call, feed>>

\* the variables of the agent and of its state store
otherVars ==
  <<level, beat, state, file, inserted, again, ncalls, defaults, aliased, answer, offset, cycle,
    followCalls, call, feed>>

agentVars == <<level, beat>>

storeVars ==
  <<state, file, inserted, again, ncalls, defaults, aliased, answer, offset, cycle, followCalls,
    call, feed>>

remoteVars == <<call, feed>>

\* ------------------------------------------------------------ scheduler
NullTimer == 0

LogLine(severity, msg, t) == [level |-> severity, msg |-> msg, task |-> t]

Op(kind, t) == [kind |-> kind, task |-> t]

Logged(l, msg, t) == \E i \in 1..Len(l) : l[i].msg = msg /\ l[i].task = t

Warnings(l) == Cardinality({i \in 1..Len(l) : l[i].level = "warn"})

\* the scheduler's fields as one value, so that a handler can be composed
Sched == [tasks |-> tasks, running |-> running, isRunning |-> isRunning, timers |-> timers,
          timerId |-> timerId, calls |-> calls, loops |-> loops,
          log |-> log, escaped |-> escaped, lastRunSet |-> lastRunSet]

\* the state a handler starts from: nothing logged, thrown or assigned yet
Entering == [Sched EXCEPT !.log = <<>>, !.escaped = FALSE, !.lastRunSet = {}]

Becomes(s) ==
  /\ tasks' = s.tasks
  /\ running' = s.running
  /\ isRunning' = s.isRunning
  /\ timers' = s.timers
  /\ timerId' = s.timerId
  /\ lastRunSet' = s.lastRunSet
  /\ calls' = s.calls
  /\ loops' = s.loops
  /\ log' = s.log
  /\ escaped' = s.escaped

Names(m) == {m[i].name : i \in 1..Len(m)}

\* the configs a register() call is given
Configs == {1, 2}

\* register() that overwrites the entry of a name it already has
register_overwrite(s, name, cfg) ==
  [s EXCEPT !.tasks = IF name \in Names(@)
                      THEN [i \in 1..Len(@) |-> IF @[i].name = name
                                                THEN [name |-> name, config |-> cfg] ELSE @[i]]
                      ELSE Append(@, [name |-> name, config |-> cfg]),
            !.isRunning[name] = FALSE,
            !.timerId[name] = NullTimer]

\* register(config): throws for a name the map has; otherwise adds the name
\* with a fresh TaskState (timerId null, isRunning false)
register(s, name, cfg) ==
  IF name \in Names(s.tasks)
  THEN [s EXCEPT !.escaped = TRUE]
  ELSE [s EXCEPT !.tasks = Append(@, [name |-> name, config |-> cfg]),
                 !.isRunning[name] = FALSE,
                 !.timerId[name] = NullTimer]

TimerIdsOf(s, t) == {tm.id : tm \in s.timers[t]}

\* setTimeout returns a handle distinct from every pending one
FreshTimerId(s, t) == CHOOSE id \in 1..(Cardinality(s.timers[t]) + 1) : id \notin TimerIdsOf(s, t)

scheduleTask(s, t, ds) ==
  IF ~s.running THEN s
  ELSE LET id == FreshTimerId(s, t)
       IN [s EXCEPT !.timers[t] = @ \cup {[id |-> id, left |-> ds[t]]},
                    !.timerId[t] = id,
                    !.log = Append(@, LogLine("info", "next-run", t))]

\* fnSettled with the reset of isRunning in the try block instead of finally
fnSettled_noFinally(s, t, outcome, ds) ==
  LET s1 == [s EXCEPT !.isRunning[t] = (outcome # "ok"),
                      !.lastRunSet = IF outcome = "ok" THEN @ \cup {t} ELSE @,
                      !.log = Append(@, IF outcome = "ok"
                                        THEN LogLine("debug", "done", t)
                                        ELSE LogLine("error", "error", t))]
  IN scheduleTask(s1, t, ds)

\* runTask from `await config.fn()` on, once fn has settled
fnSettled(s, t, outcome, ds) ==
  LET s1 == [s EXCEPT !.isRunning[t] = FALSE,
                      !.lastRunSet = IF outcome = "ok" THEN @ \cup {t} ELSE @,
                      !.log = Append(@, IF outcome = "ok"
                                        THEN LogLine("debug", "done", t)
                                        ELSE LogLine("error", "error", t))]
  IN scheduleTask(s1, t, ds)

\* the disabled branch that returns without rescheduling
skipDisabled_noReschedule(s, t, ds) ==
  [s EXCEPT !.log = Append(@, LogLine("info", "disabled", t))]

\* runTask's branch for enabled() = false: log, reschedule, return
skipDisabled(s, t, ds) ==
  scheduleTask([s EXCEPT !.log = Append(@, LogLine("info", "disabled", t))], t, ds)

\* runTask without the isRunning check
runTask_noOverlapCheck(s, t, by, mode, gate, ds) ==
  IF ~s.running THEN s
  ELSE IF HasEnabled(t) /\ gate = "throws"
  THEN [s EXCEPT !.escaped = TRUE]
  ELSE IF HasEnabled(t) /\ gate = "no"
  THEN skipDisabled(s, t, ds)
  ELSE LET s1 == [s EXCEPT !.isRunning[t] = TRUE,
                           !.log = Append(@, LogLine("debug", "begin", t))]
       IN IF mode = "returns" THEN fnSettled(s1, t, "ok", ds)
          ELSE [s1 EXCEPT !.calls[t] = Append(@, [by |-> by, hung |-> (mode = "hangs")])]

\* runTask up to the point where it returns or awaits fn; `by` is the caller
\* (0: the timer callback, k > 0: the k-th start() call)
runTask(s, t, by, mode, gate, ds) ==
  IF ~s.running THEN s
  ELSE IF s.isRunning[t]
  THEN scheduleTask([s EXCEPT !.log = Append(@, LogLine("warn", "overlap", t))], t, ds)
  ELSE IF HasEnabled(t) /\ gate = "throws"
  THEN [s EXCEPT !.escaped = TRUE]
  ELSE IF HasEnabled(t) /\ gate = "no"
  THEN skipDisabled(s, t, ds)
  ELSE LET s1 == [s EXCEPT !.isRunning[t] = TRUE,
                           !.log = Append(@, LogLine("debug", "begin", t))]
       IN IF mode = "returns" THEN fnSettled(s1, t, "ok", ds)
          ELSE [s1 EXCEPT !.calls[t] = Append(@, [by |-> by, hung |-> (mode = "hangs")])]

\* the for-loop of start() with `runOnStart ?? false`: a task without the flag
\* is only scheduled
RECURSIVE startLoop_defaultFalse(_, _, _, _, _, _)
startLoop_defaultFalse(s, k, i, modes, gates, ds) ==
  IF i > NumTasks THEN [s EXCEPT !.loops[k] = NumTasks + 1]
  ELSE startLoop_defaultFalse(scheduleTask(s, TaskOrder[i], ds), k, i + 1, modes, gates, ds)

\* the for-loop of the k-th start() call from position i, up to its next await
\* of a pending fn or its end
RECURSIVE startLoop(_, _, _, _, _, _)
startLoop(s, k, i, modes, gates, ds) ==
  IF i > NumTasks THEN [s EXCEPT !.loops[k] = NumTasks + 1]
  ELSE LET t == TaskOrder[i]
       IN IF RunOnStart(t)
          THEN LET s1 == runTask(s, t, k, modes[t], gates[t], ds)
               IN IF s1.escaped THEN [s1 EXCEPT !.loops[k] = NumTasks + 1]
                  ELSE IF Len(s1.calls[t]) > Len(s.calls[t]) THEN [s1 EXCEPT !.loops[k] = i]
                  ELSE startLoop(s1, k, i + 1, modes, gates, ds)
          ELSE startLoop(scheduleTask(s, t, ds), k, i + 1, modes, gates, ds)

start(s, modes, gates, ds) ==
  LET k == Len(s.loops) + 1
      s1 == [s EXCEPT !.running = TRUE,
                      !.loops = Append(@, 1),
                      !.log = Append(@, LogLine("info", "scheduler-start", ""))]
  IN startLoop(s1, k, 1, modes, gates, ds)

\* clearTimeout(state.timerId) for every task whose handle is set
stop(s) ==
  [s EXCEPT !.running = FALSE,
            !.timers = [t \in Tasks |-> {tm \in s.timers[t] : tm.id # s.timerId[t]}],
            !.timerId = [t \in Tasks |-> NullTimer],
            !.log = Append(@, LogLine("info", "scheduler-stop", ""))]

RemoveAt(seq, i) == SubSeq(seq, 1, i - 1) \o SubSeq(seq, i + 1, Len(seq))

\* a timer callback that waits its turn behind the other tasks: while another
\* task's fn is in flight it only rearms
timerCallback_serial(s, t, tm, mode, gate, ds) ==
  IF \E u \in Tasks \ {t} : s.isRunning[u]
  THEN scheduleTask([s EXCEPT !.timers[t] = @ \ {tm}], t, ds)
  ELSE runTask([s EXCEPT !.timers[t] = @ \ {tm}], t, 0, mode, gate, ds)

\* the timer callback of scheduleTask
timerCallback(s, t, tm, mode, gate, ds) ==
  runTask([s EXCEPT !.timers[t] = @ \ {tm}], t, 0, mode, gate, ds)

\* the i-th awaited fn of t settles: runTask resumes, then its caller
fnResumes(s, t, i, outcome, modes, gates, ds) ==
  LET c == s.calls[t][i]
      s1 == fnSettled([s EXCEPT !.calls[t] = RemoveAt(@, i)], t, outcome, ds)
  IN IF c.by = 0 THEN s1
     ELSE startLoop(s1, c.by, s.loops[c.by] + 1, modes, gates, ds)

\* --------------------------------------------------------- comment queue
NullDate == 0

NullJob == 0

\* the queue's fields as one value
Queue == [queue |-> queue, dailyCount |-> dailyCount, lastDate |-> lastDate]

QueueBecomes(q) ==
  /\ queue' = q.queue
  /\ dailyCount' = q.dailyCount
  /\ lastDate' = q.lastDate

\* the seeding without the date
initializeDailyCount_noDate(q, count, day) == [q EXCEPT !.dailyCount = count]

initializeDailyCount(q, count, day) == [q EXCEPT !.dailyCount = count, !.lastDate = day]

\* the reset that forgets to store the date
resetDailyIfNeeded_noDate(q, day) ==
  IF q.lastDate # day THEN [q EXCEPT !.dailyCount = 0] ELSE q

resetDailyIfNeeded(q, day) ==
  IF q.lastDate # day THEN [q EXCEPT !.dailyCount = 0, !.lastDate = day] ELSE q

\* enqueue with > in place of >=
enqueue_offByOne(q, job, day) ==
  LET q1 == resetDailyIfNeeded(q, day)
  IN IF q1.dailyCount + Len(q1.queue) > MAX_DAILY_COMMENTS
     THEN [q |-> q1, ret |-> "false"]
     ELSE [q |-> [q1 EXCEPT !.queue = Append(@, job)], ret |-> "true"]

\* the queue after enqueue(job) and the value returned
enqueue(q, job, day) ==
  LET q1 == resetDailyIfNeeded(q, day)
  IN IF q1.dailyCount + Len(q1.queue) >= MAX_DAILY_COMMENTS
     THEN [q |-> q1, ret |-> "false"]
     ELSE [q |-> [q1 EXCEPT !.queue = Append(@, job)], ret |-> "true"]

\* dequeue that reads the head without removing it
dequeue_peek(q) ==
  IF q.queue = <<>> THEN [q |-> q, job |-> NullJob]
  ELSE [q |-> q, job |-> Head(q.queue)]

\* this.queue.shift() ?? null
dequeue(q) ==
  IF q.queue = <<>> THEN [q |-> q, job |-> NullJob]
  ELSE [q |-> [q EXCEPT !.queue = Tail(@)], job |-> Head(q.queue)]

\* processOne taking the newest job instead of the oldest
processOne_lifo(q, day) ==
  LET q1 == resetDailyIfNeeded(q, day)
  IN IF q1.queue = <<>> THEN [q |-> q1, job |-> NullJob]
     ELSE [q |-> [q1 EXCEPT !.queue = SubSeq(@, 1, Len(@) - 1)], job |-> q1.queue[Len(q1.queue)]]

\* processOne up to its return (empty queue) or its await of createComment
processOne(q, day) == dequeue(resetDailyIfNeeded(q, day))

\* processOne after createComment has settled
writeSettled(q, ok) == IF ok THEN [q EXCEPT !.dailyCount = @ + 1] ELSE q

SeedCounts == (MAX_DAILY_COMMENTS - SeedSlack)..MAX_DAILY_COMMENTS

Max0(n) == IF n > 0 THEN n ELSE 0

\* getStats: the queue after the call and the value returned
getStats(q, day) ==
  LET q1 == resetDailyIfNeeded(q, day)
  IN [q |-> q1,
      stats |-> [queueLength |-> Len(q1.queue),
                 dailyCount |-> q1.dailyCount,
                 dailyRemaining |-> Max0(MAX_DAILY_COMMENTS - q1.dailyCount - Len(q1.queue))]]

NoStats == [queueLength |-> -1, dailyCount |-> -1, dailyRemaining |-> -1]

NullSeed == -1

\* ---------------------------------------------------------------- agent
\* The levels getActivityLevel() returns.  heartbeat() and the enabled()
\* gates tell sleeping and drowsy from the rest; low, high and hyper are
\* treated as normal is.
Levels == {"sleeping", "drowsy", "normal"}

\* agent.isSleeping(): the activity level is sleeping
isSleeping(l) == l = "sleeping"

\* enabled: () => !agent.isSleeping()
SleepGate == {IF isSleeping(level) THEN "no" ELSE "yes"}

NoBeat == [remote |-> <<>>, writes |-> <<>>]

\* the four checks of a heartbeat, in the order heartbeat() makes them
Checks == <<"feedCheck", "replyCheck", "postAttempt", "followCheck">>

\* the remote work and the state-store write of one check that is due
CheckCall(c) ==
  IF c = "feedCheck" THEN [remote |-> <<"checkFeed">>, writes |-> <<"updateLastFeedCheck">>]
  ELSE IF c = "replyCheck" THEN [remote |-> <<"checkReplies">>, writes |-> <<"updateLastReplyCheck">>]
  ELSE IF c = "postAttempt" THEN [remote |-> <<"maybeCreatePost">>, writes |-> <<"updateLastPostAttempt">>]
  ELSE [remote |-> <<"maybeFollowMolties">>, writes |-> <<>>]

RECURSIVE runChecks(_, _, _)
runChecks(b, due, i) ==
  IF i > Len(Checks) THEN b
  ELSE IF Checks[i] \in due
       THEN runChecks([remote |-> b.remote \o CheckCall(Checks[i]).remote,
                       writes |-> b.writes \o CheckCall(Checks[i]).writes], due, i + 1)
       ELSE runChecks(b, due, i + 1)

\* heartbeat() that does not look at the level
heartbeat_noSleepCheck(l, skipDraw, due, getMeFails) ==
  IF l = "drowsy" /\ skipDraw THEN NoBeat
  ELSE IF getMeFails THEN [remote |-> <<"checkSkillVersion", "getMe">>, writes |-> <<>>]
  ELSE LET b == runChecks([remote |-> <<"checkSkillVersion", "getMe">>, writes |-> <<>>], due, 1)
       IN [b EXCEPT !.writes = Append(@, "updateLastHeartbeat")]

\* heartbeat(): l is the level read at its top, skipDraw is Math.random() < 0.5,
\* due the checks getTaskStatus() reports as due, getMeFails a remote error
\* (caught and logged by heartbeat, which then returns)
heartbeat(l, skipDraw, due, getMeFails) ==
  IF l = "sleeping" THEN NoBeat
  ELSE IF l = "drowsy" /\ skipDraw THEN NoBeat
  ELSE IF getMeFails THEN [remote |-> <<"checkSkillVersion", "getMe">>, writes |-> <<>>]
  ELSE LET b == runChecks([remote |-> <<"checkSkillVersion", "getMe">>, writes |-> <<>>], due, 1)
       IN [b EXCEPT !.writes = Append(@, "updateLastHeartbeat")]

\* what getTaskStatus() can report as due
DueSets == {{}, {"feedCheck"}, {"feedCheck", "replyCheck", "postAttempt", "followCheck"}}

\* ---------------------------------------------------------- state store
\* Timestamps (new Date().toISOString()) are clock readings, dates (the
\* first ten characters of one) are day numbers; 0 stands for null.  Post
\* IDs and molty names are numbers.

\* const MAX_SEEN_IDS = 500
MAX_SEEN_IDS == 500

NullStamp == 0

IdLists == {"seenPostIds", "commentedPostIds", "upvotedPostIds"}

\* the timestamps written by the update* methods that do nothing else
Stamps == {"lastHeartbeat", "lastFeedCheck", "lastReplyCheck", "lastPostAttempt"}

\* the counters of a MoltyAffinity
Counters == {"repliedToMe", "iRepliedTo", "iUpvotedPosts", "iUpvotedComments", "sameSubmoltActivity"}

DEFAULT_STATE ==
  [lastHeartbeat |-> NullStamp, lastPostTime |-> NullStamp, lastFollowTime |-> NullStamp,
   lastFollowDate |-> NullStamp, dailyFollowCount |-> 0,
   lastFeedCheck |-> NullStamp, lastReplyCheck |-> NullStamp, lastPostAttempt |-> NullStamp,
   seenPostIds |-> <<>>, commentedPostIds |-> <<>>, upvotedPostIds |-> <<>>,
   followedMolties |-> <<>>, moltyAffinities |-> <<>>,
   skillVersion |-> 0, lastSkillCheck |-> NullStamp,
   recentCommentTargets |-> <<>>, humanAge |-> 0,
   stats |-> [totalComments |-> 0, totalPosts |-> 0, totalUpvotes |-> 0, totalFollows |-> 0]]

\* the fields of DEFAULT_STATE that hold an array or an object
RefFields ==
  {"seenPostIds", "commentedPostIds", "upvotedPostIds", "followedMolties", "moltyAffinities",
   "recentCommentTargets", "stats"}

\* the state file: absent, cut short by a failed write, or a JSON text
NoFile == [kind |-> "none", content |-> DEFAULT_STATE]

TornFile == [kind |-> "torn", content |-> DEFAULT_STATE]

\* JSON.stringify(state, null, 2): the state's fields are numbers, strings,
\* arrays and plain objects, which the text holds as they are
Json(st) == [kind |-> "json", content |-> st]

\* getHumanAge(): a number that depends on the date
getHumanAge(day) == day

\* array.includes(x)
Includes(l, x) == \E i \in 1..Len(l) : l[i] = x

\* array.slice(-n)
SliceLast(l, n) == IF Len(l) > n THEN SubSeq(l, Len(l) - n + 1, Len(l)) ELSE l

\* what a save() call meets: the write succeeds ("ok"), mkdirSync throws
\* ("nodir"), writeFileSync throws and leaves the file as it was ("fails")
\* or cut short ("torn")
WriteOutcomes == {"ok", "nodir", "fails", "torn"}

\* what a call returns: a boolean (yes) or a list of numbers (val); a call
\* that returns nothing leaves NoAnswer
Answer(kind, yes, val) == [kind |-> kind, yes |-> yes, val |-> val]

NoAnswer == Answer("none", FALSE, <<>>)

\* no maybeFollowMolties call is in flight
Idle == [left |-> <<>>, n |-> 0]

\* the StateManager as one value: its state, the file, console.error's
\* lines, the module's DEFAULT_STATE and what the call returns
Store ==
  [state |-> state, file |-> file, log |-> <<>>, defaults |-> defaults, aliased |-> aliased,
   answer |-> NoAnswer]

\* { ...DEFAULT_STATE }: a copy of the object's fields, not of the arrays and
\* objects they hold
Spread(d) == [f \in DOMAIN DEFAULT_STATE |-> IF f \in RefFields THEN d[f] ELSE DEFAULT_STATE[f]]

\* An array or object that state shares with DEFAULT_STATE is one object:
\* what a method pushed to it or counted in it, DEFAULT_STATE holds too.
Shared(m) ==
  [m EXCEPT !.defaults = [f \in RefFields |-> IF f \in m.aliased THEN m.state[f] ELSE @[f]]]

\* load(): the file's fields over the defaults; a missing file, or one that
\* JSON.parse rejects, gives the defaults
load(m) ==
  IF m.file.kind = "json" THEN [m EXCEPT !.state = m.file.content, !.aliased = {}]
  ELSE [m EXCEPT !.state = Spread(m.defaults),
                 !.aliased = RefFields,
                 !.log = IF m.file.kind = "torn"
                         THEN Append(@, LogLine("error", "load-failed", "")) ELSE @]

\* list.push(id), then list = list.slice(-MAX_SEEN_IDS) when it got longer:
\* the slice is a new array, the old one keeps the MAX_SEEN_IDS + 1 IDs
push(m, f, id) ==
  LET l == Append(m.state[f], id)
  IN IF Len(l) > MAX_SEEN_IDS
     THEN [m EXCEPT !.state[f] = SliceLast(l, MAX_SEEN_IDS),
                    !.defaults[f] = IF f \in m.aliased THEN l ELSE @,
                    !.aliased = @ \ {f}]
     ELSE [m EXCEPT !.state[f] = l]

\* save(): refreshes humanAge and writes the whole state; an error is
\* logged and not thrown
save(m, w, day) ==
  IF w = "nodir" THEN [m EXCEPT !.log = Append(@, LogLine("error", "save-failed", ""))]
  ELSE LET st == [m.state EXCEPT !.humanAge = getHumanAge(day)]
       IN IF w = "ok" THEN [m EXCEPT !.state = st, !.file = Json(st)]
          ELSE [m EXCEPT !.state = st,
                         !.file = IF w = "torn" THEN TornFile ELSE @,
                         !.log = Append(@, LogLine("error", "save-failed", ""))]

\* markSeen() that keeps the oldest IDs
markSeen_keepOldest(m, id, w, day) ==
  IF Includes(m.state.seenPostIds, id) THEN m
  ELSE LET l == Append(m.state.seenPostIds, id)
       IN save([m EXCEPT !.state.seenPostIds = IF Len(l) > MAX_SEEN_IDS THEN SubSeq(l, 1, MAX_SEEN_IDS) ELSE l],
               w, day)

markSeen(m, id, w, day) ==
  IF Includes(m.state.seenPostIds, id) THEN m
  ELSE save(push(m, "seenPostIds", id), w, day)

\* markCommented() without the includes() test
markCommented_noCheck(m, id, w, day) ==
  save([m EXCEPT !.state.commentedPostIds = SliceLast(Append(@, id), MAX_SEEN_IDS),
                 !.state.stats.totalComments = @ + 1], w, day)

markCommented(m, id, w, day) ==
  IF Includes(m.state.commentedPostIds, id) THEN m
  ELSE save([push(m, "commentedPostIds", id) EXCEPT !.state.stats.totalComments = @ + 1], w, day)

markUpvoted(m, id, w, day) ==
  IF Includes(m.state.upvotedPostIds, id) THEN m
  ELSE save([push(m, "upvotedPostIds", id) EXCEPT !.state.stats.totalUpvotes = @ + 1], w, day)

\* the mark method of an ID list
mark(f, m, id, w, day) ==
  IF f = "seenPostIds" THEN markSeen(m, id, w, day)
  ELSE IF f = "commentedPostIds" THEN markCommented(m, id, w, day)
  ELSE markUpvoted(m, id, w, day)

\* recordCommentTarget(name): keeps the last 10 targets
recordCommentTarget(m, name, w, day) ==
  save([m EXCEPT !.state.recentCommentTargets =
                   IF Len(@) + 1 > 10 THEN Tail(Append(@, name)) ELSE Append(@, name)], w, day)

\* updateLastHeartbeat, updateLastFeedCheck, updateLastReplyCheck, updateLastPostAttempt
updateStamp(m, field, w, day, now) == save([m EXCEPT !.state[field] = now], w, day)

updateLastPostTime(m, w, day, now) ==
  save([m EXCEPT !.state.lastPostTime = now, !.state.stats.totalPosts = @ + 1], w, day)

\* (1000 * 60) milliseconds, in ticks
TicksPerMinute == 2

TicksPerDay == 24 * 60 * TicksPerMinute

\* the minutes between two posts
PostCooldown == 30

\* Math.ceil(x / d), d > 0
Ceil(x, d) == -((-x) \div d)

\* canPost() with > for >=
canPost_strict(m, now) ==
  [m EXCEPT !.answer =
     Answer("canPost",
            IF m.state.lastPostTime = NullStamp THEN TRUE
            ELSE now - m.state.lastPostTime > PostCooldown * TicksPerMinute,
            <<>>)]

\* canPost(): diffMinutes >= 30, diffMinutes being a fraction
canPost(m, now) ==
  [m EXCEPT !.answer =
     Answer("canPost",
            IF m.state.lastPostTime = NullStamp THEN TRUE
            ELSE now - m.state.lastPostTime >= PostCooldown * TicksPerMinute,
            <<>>)]

\* getMinutesUntilCanPost() with Math.floor for Math.ceil
getMinutesUntilCanPost_floor(m, now) ==
  [m EXCEPT !.answer =
     Answer("getMinutesUntilCanPost", FALSE,
            IF m.state.lastPostTime = NullStamp THEN <<0>>
            ELSE <<Max0((PostCooldown * TicksPerMinute - (now - m.state.lastPostTime))
                          \div TicksPerMinute)>>)]

\* getMinutesUntilCanPost(): Math.max(0, Math.ceil(30 - diffMinutes))
getMinutesUntilCanPost(m, now) ==
  [m EXCEPT !.answer =
     Answer("getMinutesUntilCanPost", FALSE,
            IF m.state.lastPostTime = NullStamp THEN <<0>>
            ELSE <<Max0(Ceil(PostCooldown * TicksPerMinute - (now - m.state.lastPostTime),
                             TicksPerMinute))>>)]

updateSkillVersion(m, version, w, day, now) ==
  save([m EXCEPT !.state.skillVersion = version, !.state.lastSkillCheck = now], w, day)

NewAffinity(name, now) ==
  [name |-> name, repliedToMe |-> 0, iRepliedTo |-> 0, iUpvotedPosts |-> 0,
   iUpvotedComments |-> 0, sameSubmoltActivity |-> 0, lastInteraction |-> now]

\* A name that moltyAffinities, an object literal or the result of
\* JSON.parse, answers to without holding a record of it: a property of
\* Object.prototype ("constructor", "toString", "__proto__", ...).
Inherited == 5

ProtoNames == {Inherited}

\* what arithmetic on the undefined counters of such a property gives
NaN == -1

\* getOrCreateAffinity(name): the affinities with an entry for name; for an
\* inherited name the test finds the inherited property and creates nothing
getOrCreateAffinity(a, name, now) ==
  IF name \in DOMAIN a \/ name \in ProtoNames THEN a
  ELSE [n \in DOMAIN a \cup {name} |-> IF n = name THEN NewAffinity(name, now) ELSE a[n]]

\* recordUpvotedPost, recordUpvotedComment, recordRepliedTo, recordRepliedToMe,
\* recordSameSubmoltActivity: counter is the field the method increments
record(m, counter, name, w, day, now) ==
  LET a == getOrCreateAffinity(m.state.moltyAffinities, name, now)
  IN save([m EXCEPT !.state.moltyAffinities =
                      IF name \in DOMAIN a
                      THEN [a EXCEPT ![name] = [@ EXCEPT ![counter] = @ + 1, !.lastInteraction = now]]
                      ELSE a],
          w, day)

\* markFollowed() that leaves the write to a later call
markFollowed_noSave(m, name, w, day, now) ==
  IF Includes(m.state.followedMolties, name) THEN m
  ELSE [m EXCEPT !.state.followedMolties = Append(@, name),
                 !.state.stats.totalFollows = @ + 1,
                 !.state.lastFollowTime = now,
                 !.state.lastFollowDate = day,
                 !.state.dailyFollowCount = IF m.state.lastFollowDate = day THEN @ + 1 ELSE 1]

markFollowed(m, name, w, day, now) ==
  IF Includes(m.state.followedMolties, name) THEN m
  ELSE save([m EXCEPT !.state.followedMolties = Append(@, name),
                      !.state.stats.totalFollows = @ + 1,
                      !.state.lastFollowTime = now,
                      !.state.lastFollowDate = day,
                      !.state.dailyFollowCount = IF m.state.lastFollowDate = day THEN @ + 1 ELSE 1],
            w, day)

\* calculateAffinityScore(name), on state st: 0 when moltyAffinities[name]
\* is undefined
calculateAffinityScore(st, name) ==
  IF name \notin DOMAIN st.moltyAffinities THEN IF name \in ProtoNames THEN NaN ELSE 0
  ELSE LET a == st.moltyAffinities[name]
       IN a.repliedToMe * 3 + a.iRepliedTo * 2 + a.iUpvotedPosts * 2
            + a.iUpvotedComments * 1 + a.sameSubmoltActivity * 1

\* array.sort((a, b) => score(b) - score(a)) of the records of the names S:
\* the sort is stable, and Object.values lists the records in the order
\* they were created, which is the order of the names
RECURSIVE Ranked(_, _)
Ranked(S, st) ==
  IF S = {} THEN <<>>
  ELSE LET best == CHOOSE n \in S :
                     \A k \in S :
                       \/ calculateAffinityScore(st, n) > calculateAffinityScore(st, k)
                       \/ calculateAffinityScore(st, n) = calculateAffinityScore(st, k) /\ n <= k
       IN <<best>> \o Ranked(S \ {best}, st)

\* getFollowCandidates() that leaves the followed peers in
getFollowCandidates_all(m, threshold) ==
  [m EXCEPT !.answer =
     Answer("getFollowCandidates", FALSE,
            Ranked({n \in DOMAIN m.state.moltyAffinities :
                      calculateAffinityScore(m.state, n) >= threshold}, m.state))]

\* getFollowCandidates(threshold): the names of the records returned
getFollowCandidates(m, threshold) ==
  [m EXCEPT !.answer =
     Answer("getFollowCandidates", FALSE,
            Ranked({n \in DOMAIN m.state.moltyAffinities :
                      /\ calculateAffinityScore(m.state, n) >= threshold
                      /\ ~Includes(m.state.followedMolties, n)}, m.state))]

\* canFollowToday() that allows one follow more
canFollowToday_lte(m, maxPerDay, w, day) ==
  LET r == IF m.state.lastFollowDate # day
           THEN save([m EXCEPT !.state.lastFollowDate = day, !.state.dailyFollowCount = 0], w, day)
           ELSE m
  IN [r EXCEPT !.answer = Answer("canFollowToday", r.state.dailyFollowCount <= maxPerDay, <<>>)]

\* canFollowToday(maxPerDay): resets the daily count on a new date
canFollowToday(m, maxPerDay, w, day) ==
  LET r == IF m.state.lastFollowDate # day
           THEN save([m EXCEPT !.state.lastFollowDate = day, !.state.dailyFollowCount = 0], w, day)
           ELSE m
  IN [r EXCEPT !.answer = Answer("canFollowToday", r.state.dailyFollowCount < maxPerDay, <<>>)]

\* canFollowToday(maxPerDay = 5)
MaxPerDay == 5

FOLLOW_THRESHOLD == 5

MAX_FOLLOWS_PER_HEARTBEAT == 2

\* what getAgentName() answers
MyName == 1

\* what a moltbook.follow call does: it succeeds, or throws a MoltbookError
\* that is a rate limit or another error
FollowOutcomes == {"ok", "rate-limited", "fails"}

\* the for-loop of maybeFollowMolties up to its next await: the loop ends
\* after MAX_FOLLOWS_PER_HEARTBEAT follows or with the candidates, and the
\* agent's own name is passed over
RECURSIVE nextCandidate(_)
nextCandidate(c) ==
  IF c.n >= MAX_FOLLOWS_PER_HEARTBEAT \/ c.left = <<>> THEN Idle
  ELSE IF Head(c.left) = MyName THEN nextCandidate([c EXCEPT !.left = Tail(@)])
  ELSE c

\* maybeFollowMolties(), from its call to the first follow it awaits: the
\* store and the loop it leaves in flight
maybeFollowMolties(m, w, day, getMeFails) ==
  LET m1 == canFollowToday(m, MaxPerDay, w, day)
      m2 == getFollowCandidates(m1, FOLLOW_THRESHOLD)
  IN IF ~m1.answer.yes \/ getMeFails THEN [m |-> [m1 EXCEPT !.answer = NoAnswer], cycle |-> Idle]
     ELSE [m |-> [m2 EXCEPT !.answer = NoAnswer],
           cycle |-> nextCandidate([left |-> m2.answer.val, n |-> 0])]

\* maybeFollowMolties(), from the settling of a follow call to the next one
followSettled(m, c, outcome, w, day, now) ==
  IF outcome = "ok"
  THEN [m |-> markFollowed(m, Head(c.left), w, day, now),
        cycle |-> nextCandidate([left |-> Tail(c.left), n |-> c.n + 1])]
  ELSE IF outcome = "rate-limited" THEN [m |-> m, cycle |-> Idle]
  ELSE [m |-> m, cycle |-> nextCandidate([c EXCEPT !.left = Tail(@)])]

\* ---- remote calls: DeepSeekClient.chat, GeminiClient.chat, MoltbookClient.request
maxRetries == 3

baseDelayMs == 2000

retryableStatuses == {429, 500, 502, 503, 504}

RATE_LIMIT_DELAY_MS == 60000

Clients == {"DeepSeek", "Gemini", "Moltbook"}

\* fetch() rejects: there is no response and no status
NetworkError == 0

Statuses == {200, 400, 404} \cup retryableStatuses

\* the answer to one request: body tells of a 200 whether it holds text, and
\* the retry_after fields are those of an error's JSON body (0: not there)
Response(status, body, minutes, seconds) ==
  [status |-> status, body |-> body, retry_after_minutes |-> minutes, retry_after_seconds |-> seconds]

\* the retry-after durations a rate-limit answer is tried with
RetryAfterSeconds == 45

RetryAfterMinutes == 2

RateLimited ==
  {Response(429, "none", 0, 0), Response(429, "none", 0, RetryAfterSeconds),
   Response(429, "none", RetryAfterMinutes, 0)}

\* what one request meets: an error status, no response at all, status 200
\* with a body that holds text, holds no text, or is no JSON, or a rate limit
Responses ==
  {Response(st, "none", 0, 0) : st \in (Statuses \ {200}) \cup {NetworkError}}
    \cup {Response(200, b, 0, 0) : b \in {"text", "empty", "malformed"}}
    \cup RateLimited

\* no remote call was made yet
NoCall == [client |-> "none", attempt |-> 0, responses |-> <<>>, delays |-> <<>>, result |-> "none"]

\* a call of the client, its first request sent
Calling(client) == [NoCall EXCEPT !.client = client, !.result = "pending"]

\* a backoff that does not grow
backoff_flat(attempt) == baseDelayMs

\* RETRY_CONFIG.baseDelayMs * 2 ** attempt
backoff(attempt) == baseDelayMs * 2 ^ attempt

\* the delay before the retry of a request that was answered with an error status
retryDelay(client, status, attempt) ==
  IF client = "Gemini" /\ status = 429 THEN RATE_LIMIT_DELAY_MS ELSE backoff(attempt)

\* chat(): one pass of the for loop, the request of c.attempt answered by r.
\* A rejected fetch and a body that is no JSON are caught as errors that do
\* not start with the client's name and are retried; an error status and an
\* empty answer throw an error that does, which the catch block rethrows.
chat(c, r) ==
  LET a == c.attempt
      got == [c EXCEPT !.responses = Append(@, r)]
      retry(d) == [got EXCEPT !.attempt = a + 1, !.delays = Append(@, d)]
      raised == [got EXCEPT !.result = "raised"]
  IN IF r.status = NetworkError \/ (r.status = 200 /\ r.body = "malformed")
     THEN IF a < maxRetries THEN retry(backoff(a)) ELSE raised
     ELSE IF r.status # 200
     THEN IF r.status \in retryableStatuses /\ a < maxRetries
          THEN retry(retryDelay(c.client, r.status, a)) ELSE raised
     ELSE IF r.body = "empty" THEN raised ELSE [got EXCEPT !.result = "returned"]

\* request(): one fetch; an error status throws a MoltbookError, a rejected
\* fetch an Error, and a body that is no JSON rejects the promise returned
request(c, r) ==
  [c EXCEPT !.responses = Append(@, r),
            !.result = IF r.status = 200 /\ r.body = "text" THEN "returned" ELSE "raised"]

\* the call in flight gets the response r
answered(c, r) == IF c.client = "Moltbook" THEN request(c, r) ELSE chat(c, r)

\* ---- the agent's checkFeed(), processPost() and maybeCreatePost()
\* agentName before the first getMe()
NullName == 0

\* the error a call throws, as its catch block sees it: a MoltbookError
\* with its statusCode and retryAfter, or another Error
OtherError == [moltbook |-> FALSE, statusCode |-> 0, retryAfter |-> 0]

\* new MoltbookError(response.status, ..., error.retry_after_minutes || error.retry_after_seconds)
MoltbookError(r) ==
  [moltbook |-> TRUE, statusCode |-> r.status,
   retryAfter |-> IF r.retry_after_minutes # 0 THEN r.retry_after_minutes
                  ELSE r.retry_after_seconds]

\* what the settled call c threw: request() wraps an error status in a
\* MoltbookError, everything else is a plain Error
thrown(c) ==
  LET r == c.responses[Len(c.responses)]
  IN IF c.client = "Moltbook" /\ r.status \notin {200, NetworkError} THEN MoltbookError(r)
     ELSE OtherError

isRateLimited(e) == e.statusCode = 429

\* error.retryAfterSeconds: MoltbookError has no such property, the read
\* gives undefined (0 here: both are falsy)
retryAfterSeconds(e) == 0

\* the percentages of commentChance, by activity level
commentChance ==
  [sleeping |-> 0, drowsy |-> 10, low |-> 20, normal |-> 35, high |-> 50, hyper |-> 70]

NoJudgment == [should_upvote |-> FALSE, should_comment |-> FALSE]

\* no checkFeed() call was made yet
NoFeed ==
  [at |-> "idle", posts |-> <<>>, left |-> <<>>, judgment |-> NoJudgment, name |-> NullName,
   writes |-> <<>>, passed |-> <<>>, sleeps |-> <<>>, cycles |-> 0, threw |-> FALSE]

\* checkFeed() or maybeCreatePost() is called: nothing slept or thrown yet
Called(f) == [f EXCEPT !.cycles = @ + 1, !.posts = <<>>, !.sleeps = <<>>, !.threw = FALSE]

\* where a handler stands at its next await, or at its end: the store, the
\* cycle and the remote call
At(m, f, c) == [m |-> m, f |-> f, c |-> c]

\* await this.sleep(ms)
Sleep(f, why, ms) == [f EXCEPT !.sleeps = Append(@, [why |-> why, ms |-> ms])]

\* a remote write is issued, and has returned
Issue(f, kind, id) ==
  [f EXCEPT !.writes = Append(@, [kind |-> kind, post |-> id, cycle |-> f.cycles, ok |-> FALSE])]

Landed(f) == [f EXCEPT !.writes[Len(f.writes)].ok = TRUE]

\* recentTargets.filter((t) => t === postAuthorName).length
filterCount(l, x) == Cardinality({i \in 1..Len(l) : l[i] = x})

\* the for-loop of checkFeed up to its next await: posts seen are passed
\* over, the first other one is handed to processPost, which asks for the
\* agent's name (cached after the first getMe) and then for a judgment
RECURSIVE loop(_, _, _)
loop(m, f, c) ==
  IF f.left = <<>> THEN At(m, [f EXCEPT !.at = "idle"], c)
  ELSE IF Includes(m.state.seenPostIds, Head(f.left).id)
  THEN loop(m, [f EXCEPT !.left = Tail(@)], c)
  ELSE LET g == [f EXCEPT !.passed = Append(@, Head(f.left).id), !.judgment = NoJudgment]
       IN IF g.name # NullName THEN At(m, [g EXCEPT !.at = "judging"], Calling("DeepSeek"))
          ELSE At(m, [g EXCEPT !.at = "getMe"], Calling("Moltbook"))

\* a loop that goes on without marking the post seen
nextPost_unmarked(m, f, c, w, day) ==
  loop(m, [Sleep(f, "pause", 2000) EXCEPT !.left = Tail(@)], c)

\* checkFeed after processPost returned or threw: markSeen, the pause, and
\* on with the loop
nextPost(m, f, c, w, day) ==
  loop(markSeen(m, Head(f.left).id, w, day), [Sleep(f, "pause", 2000) EXCEPT !.left = Tail(@)], c)

\* a catch block that ends the cycle
caught_abort(m, f, c, e, w, day) ==
  At([m EXCEPT !.log = Append(@, LogLine("error", "post-failed", ""))], [f EXCEPT !.at = "idle"], c)

\* the catch block of checkFeed
caught(m, f, c, e, w, day) ==
  IF e.moltbook /\ isRateLimited(e)
  THEN LET waitSec == IF retryAfterSeconds(e) # 0 THEN retryAfterSeconds(e) ELSE 20
       IN nextPost([m EXCEPT !.log = Append(@, LogLine("warn", "rate-limited", ""))],
                   Sleep(f, "rate-limit", waitSec * 1000), c, w, day)
  ELSE nextPost([m EXCEPT !.log = Append(@, LogLine("error", "post-failed", ""))], f, c, w, day)

\* a comment test without the throttle on the author
commentStage_unthrottled(m, f, c, lvl, draw, w, day) ==
  LET post == Head(f.left)
  IN IF f.judgment.should_comment /\ ~Includes(m.state.commentedPostIds, post.id)
     THEN IF draw > commentChance[lvl] THEN nextPost(m, f, c, w, day)
          ELSE At(m, [f EXCEPT !.at = "generating"], Calling("DeepSeek"))
     ELSE nextPost(m, f, c, w, day)

\* processPost from the comment test on: the throttle on the author, the
\* draw against the level's chance, and the call that writes the comment
commentStage(m, f, c, lvl, draw, w, day) ==
  LET post == Head(f.left)
  IN IF f.judgment.should_comment /\ ~Includes(m.state.commentedPostIds, post.id)
     THEN IF filterCount(SliceLast(m.state.recentCommentTargets, 5), post.author) >= 2
          THEN nextPost(m, f, c, w, day)
          ELSE IF draw > commentChance[lvl] THEN nextPost(m, f, c, w, day)
          ELSE At(m, [f EXCEPT !.at = "generating"], Calling("DeepSeek"))
     ELSE nextPost(m, f, c, w, day)

\* processPost that upvotes without asking hasUpvoted
judged_noCheck(m, f, c, j, lvl, draw, w, day, now) ==
  LET post == Head(f.left)
      m1 == IF post.author # f.name THEN record(m, "sameSubmoltActivity", post.author, w, day, now)
            ELSE m
      g == [f EXCEPT !.judgment = j]
  IN IF j.should_upvote
     THEN At(m1, [Issue(g, "upvote", post.id) EXCEPT !.at = "upvoting"], Calling("Moltbook"))
     ELSE commentStage(m1, g, c, lvl, draw, w, day)

\* processPost once judgePost has returned j
judged(m, f, c, j, lvl, draw, w, day, now) ==
  LET post == Head(f.left)
      m1 == IF post.author # f.name THEN record(m, "sameSubmoltActivity", post.author, w, day, now)
            ELSE m
      g == [f EXCEPT !.judgment = j]
  IN IF j.should_upvote /\ ~Includes(m1.state.upvotedPostIds, post.id)
     THEN At(m1, [Issue(g, "upvote", post.id) EXCEPT !.at = "upvoting"], Calling("Moltbook"))
     ELSE commentStage(m1, g, c, lvl, draw, w, day)

\* processPost once upvotePost has returned
upvoted(m, f, c, lvl, draw, w, day, now) ==
  LET post == Head(f.left)
      m1 == markUpvoted(m, post.id, w, day)
      m2 == IF post.author # f.name THEN record(m1, "iUpvotedPosts", post.author, w, day, now)
            ELSE m1
  IN commentStage(m2, Sleep(Landed(f), "after-upvote", 1000), c, lvl, draw, w, day)

\* processPost once createComment has returned
commented(m, f, c, w, day, now) ==
  LET post == Head(f.left)
      m1 == recordCommentTarget(markCommented(m, post.id, w, day), post.author, w, day)
      m2 == IF post.author # f.name THEN record(m1, "iRepliedTo", post.author, w, day, now)
            ELSE m1
  IN nextPost(m2, Sleep(Landed(f), "after-comment", 20000), c, w, day)

\* checkFeed() and processPost() when the call they await has settled: in
\* holds what the remote side and Math.random() give (the posts of the feed,
\* the judgment, whether the model's text parses, the draw)
feedResumes(m, f, c, in, lvl, w, day, now) ==
  IF f.at = "getPosts"
  THEN IF c.result = "raised" THEN At(m, [f EXCEPT !.at = "idle", !.threw = TRUE], c)
       ELSE loop(m, [f EXCEPT !.posts = in.posts, !.left = in.posts], c)
  ELSE IF f.at = "getMe"
  THEN IF c.result = "raised" THEN caught(m, f, c, thrown(c), w, day)
       ELSE At(m, [f EXCEPT !.name = MyName, !.at = "judging"], Calling("DeepSeek"))
  ELSE IF f.at = "judging"
  THEN IF c.result = "raised" \/ ~in.parses THEN caught(m, f, c, OtherError, w, day)
       ELSE judged(m, f, c, in.judgment, lvl, in.draw, w, day, now)
  ELSE IF f.at = "upvoting"
  THEN IF c.result = "raised" THEN caught(m, f, c, thrown(c), w, day)
       ELSE upvoted(m, f, c, lvl, in.draw, w, day, now)
  ELSE IF f.at = "generating"
  THEN IF c.result = "raised" \/ ~in.parses THEN caught(m, f, c, OtherError, w, day)
       ELSE At(m, [Issue(f, "comment", Head(f.left).id) EXCEPT !.at = "commenting"],
               Calling("Moltbook"))
  ELSE IF c.result = "raised" THEN caught(m, f, c, thrown(c), w, day)
       ELSE commented(m, f, c, w, day, now)

\* maybeCreatePost() up to its first await: the cooldown, then the draw
\* against 30 %
maybeCreatePost(m, f, c, now, draw) ==
  IF ~canPost(m, now).answer.yes
  THEN At([m EXCEPT !.log = Append(@, LogLine("info", "too-early", ""))], f, c)
  ELSE IF draw > 30 THEN At(m, f, c)
  ELSE At(m, [f EXCEPT !.at = "generatingPost"], Calling("DeepSeek"))

\* the awaits of maybeCreatePost()
PostStages == {"generatingPost", "creatingPost"}

\* maybeCreatePost() when the call it awaits has settled; an error that is
\* no rate limit is thrown on to the caller
postResumes(m, f, c, in, w, day, now) ==
  LET done == [f EXCEPT !.at = "idle"]
      rethrown == [f EXCEPT !.at = "idle", !.threw = TRUE]
  IN IF f.at = "generatingPost"
     THEN IF c.result = "raised" \/ ~in.parses THEN At(m, rethrown, c)
          ELSE At(m, [Issue(f, "post", 0) EXCEPT !.at = "creatingPost"], Calling("Moltbook"))
     ELSE IF c.result = "returned" THEN At(updateLastPostTime(m, w, day, now), Landed(done), c)
     ELSE IF thrown(c).moltbook /\ isRateLimited(thrown(c))
     THEN At([m EXCEPT !.log = Append(@, LogLine("warn", "post-rate-limited", ""))], done, c)
     ELSE At(m, rethrown, c)

\* -------------------------------------------------------------- actions
NoTimers == [t \in Tasks |-> {}]

\* the registrations of main(), each with the config it passes
RegisteredByMain == [i \in 1..NumTasks |-> [name |-> TaskOrder[i], config |-> 1]]

\* the fields of a scheduler, a queue and an agent after construction, but
\* for the scheduler's task map; the time zone and the time of the start
\* are the process's
Constructed ==
  /\ running = FALSE
  /\ isRunning = [t \in Tasks |-> FALSE]
  /\ timers = NoTimers
  /\ timerId = [t \in Tasks |-> NullTimer]
  /\ lastRunSet = {}
  /\ calls = [t \in Tasks |-> <<>>]
  /\ loops = <<>>
  /\ log = <<>>
  /\ escaped = FALSE
  /\ op = Op("register", "")
  /\ queue = <<>>
  /\ dailyCount = 0
  /\ lastDate = NullDate
  /\ today = 1
  /\ accepted = <<>>
  /\ sent = <<>>
  /\ posting = {}
  /\ nextJob = 1
  /\ ret = "none"
  /\ stats = NoStats
  /\ seed = NullSeed
  /\ sinceWrite = CommentQueueInterval
  /\ level = "normal"
  /\ beat = NoBeat
  /\ state = DEFAULT_STATE
  /\ file = NoFile
  /\ inserted = [f \in IdLists |-> <<>>]
  /\ again = FALSE
  /\ ncalls = 0
  /\ defaults = [f \in RefFields |-> DEFAULT_STATE[f]]
  /\ aliased = RefFields
  /\ answer = NoAnswer
  /\ cycle = Idle
  /\ followCalls = <<>>
  /\ call = NoCall
  /\ feed = NoFeed

\* the state when main() has made its registrations
Init == tasks = RegisteredByMain /\ offset = 0 /\ localDate = 1 /\ clock = 1 /\ Constructed

\* start(); a call while running returns at once and is left out
Start(gateResults) ==
  /\ ~running
  /\ Len(loops) < MaxStarts
  /\ \E modes \in FnChoices(RunFrom(1)), gate \in gateResults, ds \in DelayDraws(From(1)) :
       Becomes(start(Entering, modes, [t \in Tasks |-> gate], ds))
  /\ op' = Op("start", "")
  /\ UNCHANGED <<queueVars, sinceWrite, otherVars>>

Stop ==
  /\ Becomes(stop(Entering))
  /\ op' = Op("stop", "")
  /\ UNCHANGED <<queueVars, sinceWrite, otherVars>>

\* runTask(t) gets past its two early returns: it evaluates enabled()
Invokes(t) == running /\ ~isRunning[t]

\* what enabled() can answer where runTask(t) calls it
GatesAt(t, gateResults) == IF HasEnabled(t) /\ Invokes(t) THEN gateResults ELSE {"yes"}

\* what fn can do where runTask(t) calls it
ModesAt(t, gate) == IF Invokes(t) /\ gate = "yes" THEN FnModes ELSE {"pending"}

\* the delays scheduleTask can draw for the tasks of R; it draws none when
\* the scheduler is stopped
DrawsAt(R) == IF running THEN DelayDraws(R) ELSE DelayDraws({})

TimerFires(t, gateResults) ==
  /\ \E tm \in timers[t], gate \in GatesAt(t, gateResults), ds \in DrawsAt({t}) :
     \E mode \in ModesAt(t, gate) :
       /\ tm.left = 0
       /\ Becomes(timerCallback(Entering, t, tm, mode, gate, ds))
  /\ op' = Op("timer", t)
  /\ UNCHANGED <<queueVars, sinceWrite, otherVars>>

FnReturns(t, outcome, gateResults) ==
  /\ \E i \in 1..Len(calls[t]) :
       /\ ~calls[t][i].hung
       /\ LET k == calls[t][i].by
              rest == IF k = 0 THEN NumTasks + 1 ELSE loops[k] + 1
          IN \E modes \in FnChoices(RunFrom(rest)), ds \in DrawsAt({t} \cup From(rest)),
                gate \in (IF \E u \in RunFrom(rest) : HasEnabled(u) THEN gateResults ELSE {"yes"}) :
               Becomes(fnResumes(Entering, t, i, outcome, modes, [u \in Tasks |-> gate], ds))
  /\ op' = Op(outcome, t)
  /\ UNCHANGED <<queueVars, sinceWrite, otherVars>>

\* ten seconds pass
Tick ==
  /\ timers' = [t \in Tasks |-> {[tm EXCEPT !.left = IF @ > 0 THEN @ - 1 ELSE 0] : tm \in timers[t]}]
  /\ log' = <<>>
  /\ escaped' = FALSE
  /\ op' = Op("tick", "")
  /\ sinceWrite' = IF sinceWrite < CommentQueueInterval THEN sinceWrite + 1 ELSE sinceWrite
  /\ lastRunSet' = {}
  /\ UNCHANGED <<tasks, running, isRunning, timerId, calls, loops, queueVars, otherVars>>

\* ---- the queue, called directly
Quiet ==
  /\ log' = <<>>
  /\ escaped' = FALSE
  /\ lastRunSet' = {}
  /\ UNCHANGED <<tasks, running, isRunning, timers, timerId, calls, loops, otherVars>>

\* main() seeds the counter once, before anything is enqueued
InitializeDailyCount ==
  /\ lastDate = NullDate
  /\ accepted = <<>>
  /\ \E c \in SeedCounts :
       /\ QueueBecomes(initializeDailyCount(Queue, c, today))
       /\ seed' = c
  /\ op' = Op("initializeDailyCount", "")
  /\ ret' = "none"
  /\ stats' = NoStats
  /\ Quiet
  /\ UNCHANGED <<today, clock, localDate, accepted, sent, posting, nextJob, sinceWrite>>

Enqueue ==
  /\ nextJob <= MaxJobs
  /\ LET r == enqueue(Queue, nextJob, today)
     IN /\ QueueBecomes(r.q)
        /\ ret' = r.ret
        /\ accepted' = IF r.ret = "true" THEN Append(accepted, nextJob) ELSE accepted
  /\ nextJob' = nextJob + 1
  /\ op' = Op("enqueue", "")
  /\ stats' = NoStats
  /\ Quiet
  /\ UNCHANGED <<today, clock, localDate, sent, posting, sinceWrite, seed>>

GetStats ==
  /\ LET r == getStats(Queue, today)
     IN /\ QueueBecomes(r.q)
        /\ stats' = r.stats
  /\ op' = Op("getStats", "")
  /\ ret' = "none"
  /\ Quiet
  /\ UNCHANGED <<today, clock, localDate, accepted, sent, posting, nextJob, sinceWrite, seed>>

\* a processOne call, up to its return or its await of the remote write
ProcessOne ==
  /\ LET r == processOne(Queue, today)
     IN /\ QueueBecomes(r.q)
        /\ IF r.job = NullJob
           THEN UNCHANGED <<sent, posting, sinceWrite, seed>>
           ELSE /\ sent' = Append(sent, r.job)
                /\ posting' = posting \cup {r.job}
                /\ sinceWrite' = 0
                /\ seed' = NullSeed
  /\ op' = Op("processOne", "")
  /\ ret' = "none"
  /\ stats' = NoStats
  /\ Quiet
  /\ UNCHANGED <<today, clock, localDate, accepted, nextJob>>

\* the createComment call of a processOne settles
WriteSettles(ok) ==
  /\ \E job \in posting :
       /\ posting' = posting \ {job}
       /\ QueueBecomes(writeSettled(Queue, ok))
  /\ op' = Op(IF ok THEN "written" ELSE "write-failed", "")
  /\ ret' = "none"
  /\ stats' = NoStats
  /\ Quiet
  /\ UNCHANGED <<today, clock, localDate, accepted, sent, nextJob, sinceWrite, seed>>

\* time passes until midnight UTC; east of Greenwich the local date has
\* changed before, west of it it changes later
NewDay ==
  /\ today < MaxDays
  /\ offset > 0 => localDate = today + 1
  /\ offset < 0 => localDate = today
  /\ today' = today + 1
  /\ clock' = today * TicksPerDay + 1
  /\ localDate' = IF offset = 0 THEN localDate + 1 ELSE localDate
  /\ op' = Op("midnight", "")
  /\ ret' = "none"
  /\ stats' = NoStats
  /\ seed' = NullSeed
  /\ Quiet
  /\ UNCHANGED <<queue, dailyCount, lastDate, accepted, sent, posting, nextJob, sinceWrite>>

NextQueue ==
  \/ InitializeDailyCount
  \/ Enqueue
  \/ ProcessOne
  \/ GetStats
  \/ WriteSettles(TRUE)
  \/ WriteSettles(FALSE)
  \/ NewDay

SpecQueue == Init /\ [][NextQueue]_vars

Next ==
  \/ Start(GateResults)
  \/ Stop
  \/ \E t \in Tasks : TimerFires(t, GateResults)
  \/ \E t \in Tasks : FnReturns(t, "ok", GateResults)
  \/ \E t \in Tasks : FnReturns(t, "throw", GateResults)
  \/ Tick

Spec == Init /\ [][Next]_vars

\* the same scheduler with tasks whose enabled() predicate can raise
NextThrowingGate ==
  \/ Start(GateResultsThrowing)
  \/ Stop
  \/ \E t \in Tasks : TimerFires(t, GateResultsThrowing)
  \/ \E t \in Tasks : FnReturns(t, "ok", GateResultsThrowing)
  \/ \E t \in Tasks : FnReturns(t, "throw", GateResultsThrowing)
  \/ Tick

SpecThrowingGate == Init /\ [][NextThrowingGate]_vars

\* a timer firing at which fn is invoked
FiresAndRuns(t) == TimerFires(t, GateResults) /\ Logged(log', "begin", t)

\* The scheduler as main() uses it: start() is called once and stop() only
\* when the process exits.
NextRun ==
  \/ Start(GateResults)
  \/ \E t \in Tasks : TimerFires(t, GateResults)
  \/ \E t \in Tasks : FnReturns(t, "ok", GateResults)
  \/ \E t \in Tasks : FnReturns(t, "throw", GateResults)
  \/ Tick

\* Time passes, a due timer fires, an fn that is not hung settles, and a
\* gated task is not found disabled at every firing for ever.
FairRun ==
  /\ Init
  /\ [][NextRun]_vars
  /\ WF_vars(Tick)
  /\ \A t \in Tasks : SF_vars(FiresAndRuns(t))
  /\ \A t \in Tasks : WF_vars(FnReturns(t, "ok", GateResults) \/ FnReturns(t, "throw", GateResults))

\* ---- the program: main() registers the tasks, seeds the queue and calls
\* start(); the drain task's fn is agent.processCommentQueue()

\* agent.processCommentQueue(): hands the queue's head to the remote write
processCommentQueue(q, day) == processOne(q, day)

SeedAtStartup == ~running /\ loops = <<>> /\ InitializeDailyCount

\* the interaction engine enqueues comments during a feed or reply cycle
AgentEnqueue == isRunning["feed-check"] /\ Enqueue

\* a drain task registered with enabled: () => !agent.isSleeping()
DrainGates_sleeping == GateResults

\* the drain task is registered without enabled(): runTask finds no gate
DrainGates == {"yes"}

\* the timer of the drain task fires
DrainFires ==
  LET t == "comment-queue"
      r == processCommentQueue(Queue, today)
  IN /\ \E tm \in timers[t], ds \in DelayDraws({t}), gate \in DrainGates :
          /\ tm.left = 0
          /\ IF ~running \/ isRunning[t] \/ gate = "no"
             THEN /\ Becomes(timerCallback(Entering, t, tm, "returns", gate, ds))
                  /\ UNCHANGED <<queue, dailyCount, lastDate, sent, posting, sinceWrite, seed>>
             ELSE IF r.job = NullJob
             THEN /\ Becomes(timerCallback(Entering, t, tm, "returns", "yes", ds))
                  /\ QueueBecomes(r.q)
                  /\ UNCHANGED <<sent, posting, sinceWrite, seed>>
             ELSE /\ \E mode \in {"pending", "hangs"} :
                       Becomes(timerCallback(Entering, t, tm, mode, "yes", ds))
                  /\ QueueBecomes(r.q)
                  /\ sent' = Append(sent, r.job)
                  /\ posting' = posting \cup {r.job}
                  /\ sinceWrite' = 0
                  /\ seed' = NullSeed
     /\ op' = Op("timer", t)
     /\ ret' = "none"
     /\ UNCHANGED <<today, clock, localDate, accepted, nextJob, stats, otherVars>>

\* the remote write of the drain task settles: processOne counts it or logs
\* the failure, fn returns and runTask reschedules
DrainWriteSettles(ok) ==
  LET t == "comment-queue"
  IN /\ \E i \in 1..Len(calls[t]), ds \in DelayDraws({t}) :
          /\ ~calls[t][i].hung
          /\ calls[t][i].by = 0
          /\ Becomes(fnResumes(Entering, t, i, "ok", [u \in Tasks |-> "pending"],
                                [u \in Tasks |-> "yes"], ds))
     /\ \E job \in posting : posting' = posting \ {job}
     /\ QueueBecomes(writeSettled(Queue, ok))
     /\ op' = Op(IF ok THEN "written" ELSE "write-failed", t)
     /\ ret' = "none"
     /\ UNCHANGED <<today, clock, localDate, accepted, sent, nextJob, sinceWrite, stats, seed, otherVars>>

NextMain ==
  \/ SeedAtStartup
  \/ Start(GateResults)
  \/ TimerFires("feed-check", GateResults)
  \/ FnReturns("feed-check", "ok", GateResults)
  \/ FnReturns("feed-check", "throw", GateResults)
  \/ AgentEnqueue
  \/ DrainFires
  \/ DrainWriteSettles(TRUE)
  \/ DrainWriteSettles(FALSE)
  \/ Tick
  \/ NewDay

SpecMain == Init /\ [][NextMain]_vars

\* every remote call made so far returns
NoHang == \A t \in Tasks : \A i \in 1..Len(calls[t]) : ~calls[t][i].hung

\* the program while its remote calls return, the queue's counter unseeded
NextDrain ==
  \/ Start(GateResults) /\ NoHang'
  \/ TimerFires("feed-check", GateResults) /\ NoHang'
  \/ FnReturns("feed-check", "ok", GateResults)
  \/ AgentEnqueue
  \/ DrainFires /\ NoHang'
  \/ DrainWriteSettles(TRUE)
  \/ DrainWriteSettles(FALSE)
  \/ Tick
  \/ NewDay

\* The program while it keeps running: main() calls start(), time passes, a
\* due timer of the drain task fires, and the remote calls settle.
FairMain ==
  /\ Init
  /\ [][NextDrain]_vars
  /\ WF_vars(Start(GateResults))
  /\ WF_vars(Tick)
  /\ WF_vars(DrainFires)
  /\ WF_vars(DrainWriteSettles(TRUE) \/ DrainWriteSettles(FALSE))
  /\ WF_vars(FnReturns("feed-check", "ok", GateResults))

\* ---- registration: main() registers its tasks in order and starts the
\* scheduler; a register() call with a name already taken can come at any time

\* a scheduler just constructed
InitRegister == tasks = <<>> /\ offset = 0 /\ localDate = 1 /\ clock = 1 /\ Constructed

Register(t, cfg) ==
  /\ t \in Names(tasks) \/ (Len(tasks) < NumTasks /\ t = TaskOrder[Len(tasks) + 1])
  /\ Becomes(register(Entering, t, cfg))
  /\ op' = Op("register", t)
  /\ UNCHANGED <<queueVars, sinceWrite, otherVars>>

\* main() has registered its tasks
AllRegistered == Names(tasks) = Tasks

NextRegister ==
  \/ \E t \in Tasks, cfg \in Configs : Register(t, cfg)
  \/ AllRegistered /\ Start(GateResults)
  \/ \E t \in Tasks : TimerFires(t, GateResults)
  \/ \E t \in Tasks : FnReturns(t, "ok", GateResults)
  \/ \E t \in Tasks : FnReturns(t, "throw", GateResults)
  \/ Tick

SpecRegister == InitRegister /\ [][NextRegister]_vars

\* ---- the state store: StateManager's mutators, called by the agent

\* the molty names and skill versions the calls are made with
Molties == {1}

Versions == {1}

\* what a StateManager call leaves behind: m is the store when it returns,
\* n the number of calls counted; op.task is the call's argument as a string
Leaves(kind, arg, m, n) ==
  /\ state' = m.state
  /\ file' = m.file
  /\ log' = m.log
  /\ defaults' = Shared(m).defaults
  /\ aliased' = m.aliased
  /\ answer' = m.answer
  /\ again' = (op.kind = kind /\ op.task = arg)
  /\ op' = Op(kind, arg)
  /\ ncalls' = n
  /\ escaped' = FALSE
  /\ lastRunSet' = {}
  /\ UNCHANGED <<tasks, running, isRunning, timers, timerId, calls, loops, queueVars, sinceWrite, agentVars, offset>>

\* a StateManager call made outside checkFeed()
Returns(kind, arg, m, n) == Leaves(kind, arg, m, n) /\ UNCHANGED remoteVars

MarkName(f) ==
  IF f = "seenPostIds" THEN "markSeen"
  ELSE IF f = "commentedPostIds" THEN "markCommented" ELSE "markUpvoted"

\* the IDs a mark call is made with: one never marked, the oldest and the
\* newest of the list, and the first ID ever marked
IdsOffered(f) ==
  {Len(inserted[f]) + 1}
    \cup (IF state[f] # <<>> THEN {Head(state[f]), state[f][Len(state[f])]} ELSE {})
    \cup (IF inserted[f] # <<>> THEN {1} ELSE {})

\* a call of the mark method of list f; room: an ID that is not in the list
\* may be given
Mark(f, w, room, n) ==
  \E id \in IdsOffered(f) :
    /\ Includes(state[f], id) \/ room
    /\ Returns(MarkName(f), ToString(id), mark(f, Store, id, w, today), n)
    /\ inserted' = [inserted EXCEPT ![f] = IF Includes(SliceLast(@, MAX_SEEN_IDS), id)
                                           THEN @ ELSE Append(@, id)]
    /\ UNCHANGED <<cycle, followCalls>>

MarkSeen(w, room, n) == Mark("seenPostIds", w, room, n)

MarkCommented(w, room, n) == Mark("commentedPostIds", w, room, n)

MarkUpvoted(w, room, n) == Mark("upvotedPostIds", w, room, n)

RecordCommentTarget(w, n) ==
  /\ \E name \in Molties :
       Returns("recordCommentTarget", ToString(name), recordCommentTarget(Store, name, w, today), n)
  /\ UNCHANGED <<inserted, cycle, followCalls>>

UpdateStamp(w, n) ==
  /\ \E field \in Stamps : Returns("update", field, updateStamp(Store, field, w, today, clock), n)
  /\ UNCHANGED <<inserted, cycle, followCalls>>

UpdateLastPostTime(w, n) ==
  /\ Returns("updateLastPostTime", "", updateLastPostTime(Store, w, today, clock), n)
  /\ UNCHANGED <<inserted, cycle, followCalls>>

UpdateSkillVersion(w, n) ==
  /\ \E v \in Versions :
       Returns("updateSkillVersion", ToString(v), updateSkillVersion(Store, v, w, today, clock), n)
  /\ UNCHANGED <<inserted, cycle, followCalls>>

Record(w, n) ==
  /\ \E counter \in Counters, name \in Molties :
       Returns("record", counter, record(Store, counter, name, w, today, clock), n)
  /\ UNCHANGED <<inserted, cycle, followCalls>>

MarkFollowed(w, n) ==
  /\ \E name \in Molties :
       Returns("markFollowed", ToString(name), markFollowed(Store, name, w, today, clock), n)
  /\ UNCHANGED <<inserted, cycle, followCalls>>

CanFollowToday(w, n) ==
  /\ Returns("canFollowToday", "", canFollowToday(Store, MaxPerDay, w, today), n)
  /\ UNCHANGED <<inserted, cycle, followCalls>>

\* The marking methods alone, with one ID list driven past MAX_SEEN_IDS
\* while the other two are empty, or all three short.  The writes succeed:
\* save() touches no ID list, and its errors are explored with every mutator
\* below.
Room(f) ==
  /\ Len(inserted[f]) < MaxInserts
  /\ Len(inserted[f]) < ShortLen \/ \A g \in IdLists \ {f} : inserted[g] = <<>>

NextMarks ==
  \/ MarkSeen("ok", Room("seenPostIds"), ncalls)
  \/ MarkCommented("ok", Room("commentedPostIds"), ncalls)
  \/ MarkUpvoted("ok", Room("upvotedPostIds"), ncalls)

SpecMarks == Init /\ [][NextMarks]_vars

\* every mutator, for MaxCalls calls
NextState ==
  \/ /\ ncalls < MaxCalls
     /\ \E w \in WriteOutcomes :
          \/ MarkSeen(w, TRUE, ncalls + 1)
          \/ MarkCommented(w, TRUE, ncalls + 1)
          \/ MarkUpvoted(w, TRUE, ncalls + 1)
          \/ RecordCommentTarget(w, ncalls + 1)
          \/ UpdateStamp(w, ncalls + 1)
          \/ UpdateLastPostTime(w, ncalls + 1)
          \/ UpdateSkillVersion(w, ncalls + 1)
          \/ Record(w, ncalls + 1)
          \/ MarkFollowed(w, ncalls + 1)
          \/ CanFollowToday(w, ncalls + 1)
  \/ NewDay

SpecState == Init /\ [][NextState]_vars

\* ---- the post cooldown: posts and questions at any time
\* half a minute passes
TimePasses ==
  /\ clock < MaxClock
  /\ clock' = clock + 1
  /\ op' = Op("tick", "")
  /\ answer' = NoAnswer
  /\ log' = <<>>
  /\ escaped' = FALSE
  /\ lastRunSet' = {}
  /\ UNCHANGED <<tasks, running, isRunning, timers, timerId, calls, loops, queue, dailyCount,
                 lastDate, today, localDate, accepted, sent, posting, nextJob, ret, stats, seed,
                 sinceWrite, agentVars, state, file, inserted, again, ncalls, defaults, aliased,
                 offset, cycle, followCalls, remoteVars>>

CanPost ==
  /\ Returns("canPost", "", canPost(Store, clock), ncalls)
  /\ UNCHANGED <<inserted, cycle, followCalls>>

GetMinutesUntilCanPost ==
  /\ Returns("getMinutesUntilCanPost", "", getMinutesUntilCanPost(Store, clock), ncalls)
  /\ UNCHANGED <<inserted, cycle, followCalls>>

NextCooldown ==
  \/ TimePasses
  \/ state.stats.totalPosts < MaxPosts /\ UpdateLastPostTime("ok", ncalls)
  \/ CanPost
  \/ GetMinutesUntilCanPost

SpecCooldown == Init /\ [][NextCooldown]_vars

\* ---- following: the agent's maybeFollowMolties() and the calls it makes
Peers == 1..MaxPeers

\* the state file an earlier run has left: every peer has replied twice
SavedState ==
  [DEFAULT_STATE EXCEPT
     !.moltyAffinities = [p \in Peers |-> [NewAffinity(p, 1) EXCEPT !.repliedToMe = 2]]]

\* the process starts on that file
Restart ==
  /\ op.kind = "register"
  /\ Returns("construct", "saved", load([Store EXCEPT !.file = Json(SavedState)]), ncalls)
  /\ UNCHANGED <<inserted, cycle, followCalls>>

\* the follow calls settled on one of the days D, with or without success
FollowsOn(D, ok) ==
  {i \in 1..Len(followCalls) : followCalls[i].day \in D /\ followCalls[i].ok = ok}

\* heartbeat() calls maybeFollowMolties(); no call of it is in flight
MaybeFollowMolties ==
  /\ cycle = Idle
  /\ \E getMeFails \in BOOLEAN :
       LET r == maybeFollowMolties(Store, "ok", today, getMeFails)
       IN /\ Returns("maybeFollowMolties", "", r.m, ncalls)
          /\ cycle' = r.cycle
  /\ UNCHANGED <<inserted, followCalls>>

\* the follow call of the loop settles, after the sleep before it
FollowSettles ==
  /\ cycle # Idle
  /\ \E outcome \in FollowOutcomes :
       /\ outcome = "ok" \/ Cardinality(FollowsOn(1..today, FALSE)) < MaxFailures
       /\ LET r == followSettled(Store, cycle, outcome, "ok", today, clock)
          IN /\ Returns("follow", outcome, r.m, ncalls)
             /\ cycle' = r.cycle
             /\ followCalls' = Append(followCalls, [day |-> today, ok |-> outcome = "ok"])
  /\ UNCHANGED inserted

\* nine hours, the distance of the time zones tried from UTC
ZoneShift == 9 * 60 * TicksPerMinute

\* time passes until two minutes before midnight UTC
LateEvening ==
  /\ clock < today * TicksPerDay - 2 * TicksPerMinute + 1
  /\ offset > 0 => localDate = today + 1
  /\ offset < 0 => localDate = today
  /\ clock' = today * TicksPerDay - 2 * TicksPerMinute + 1
  /\ op' = Op("evening", "")
  /\ answer' = NoAnswer
  /\ log' = <<>>
  /\ escaped' = FALSE
  /\ lastRunSet' = {}
  /\ UNCHANGED <<tasks, running, isRunning, timers, timerId, calls, loops, queue, dailyCount,
                 lastDate, today, localDate, accepted, sent, posting, nextJob, ret, stats, seed,
                 sinceWrite, agentVars, state, file, inserted, again, ncalls, defaults, aliased,
                 offset, cycle, followCalls, remoteVars>>

\* time passes until midnight in the process's time zone, ZoneShift before
\* (east) or after (west) midnight UTC
LocalMidnight ==
  /\ offset # 0
  /\ localDate = IF offset > 0 THEN today ELSE today - 1
  /\ LET at == IF offset > 0 THEN today * TicksPerDay - ZoneShift + 1
               ELSE (today - 1) * TicksPerDay + ZoneShift + 1
     IN clock < at /\ clock' = at
  /\ localDate' = localDate + 1
  /\ op' = Op("local-midnight", "")
  /\ answer' = NoAnswer
  /\ log' = <<>>
  /\ escaped' = FALSE
  /\ lastRunSet' = {}
  /\ UNCHANGED <<tasks, running, isRunning, timers, timerId, calls, loops, queue, dailyCount,
                 lastDate, today, accepted, sent, posting, nextJob, ret, stats, seed,
                 sinceWrite, agentVars, state, file, inserted, again, ncalls, defaults, aliased,
                 offset, cycle, followCalls, remoteVars>>

NextFollow ==
  \/ Restart
  \/ MaybeFollowMolties
  \/ FollowSettles
  \/ CanFollowToday("ok", ncalls)
  \/ NewDay
  \/ LateEvening

SpecFollow == Init /\ [][NextFollow]_vars

\* StateManager's follow methods in a time zone west of, at or east of
\* UTC; the process starts at the first midnight, UTC or local, at which
\* the two dates agree
Offsets == {-1, 0, 1}

InitZone ==
  /\ tasks = RegisteredByMain
  /\ offset \in Offsets
  /\ localDate = 1
  /\ clock = IF offset < 0 THEN ZoneShift + 1 ELSE 1
  /\ Constructed

NextZone ==
  \/ MarkFollowed("ok", ncalls)
  \/ CanFollowToday("ok", ncalls)
  \/ NewDay
  \/ LateEvening
  \/ LocalMidnight

SpecZone == InitZone /\ [][NextZone]_vars

\* ---- the affinities: the record* methods, the score and the candidates
\* the peers whose score is asked, numbered in the order of their first
\* record, and one never met
Scored == {1, 2}

Stranger == 4

\* the peers among whom candidates are sought, and the two counters their
\* scores are made of
Rated == {1, 2, 3}

RatedBy == {"repliedToMe", "sameSubmoltActivity"}

\* the thresholds getFollowCandidates is called with
Thresholds == {3, FOLLOW_THRESHOLD}

\* a record* call for one of the names: a new name is the next number or
\* an inherited one
RecordAmong(names, counters) ==
  /\ ncalls < MaxRecords
  /\ \E counter \in counters, name \in names :
       /\ name <= Cardinality(DOMAIN state.moltyAffinities) + 1 \/ name \in ProtoNames
       /\ Returns("record", counter, record(Store, counter, name, "ok", today, clock), ncalls + 1)
  /\ UNCHANGED <<inserted, cycle, followCalls>>

MarkFollowedAmong(names) ==
  /\ \E name \in names :
       Returns("markFollowed", ToString(name), markFollowed(Store, name, "ok", today, clock), ncalls)
  /\ UNCHANGED <<inserted, cycle, followCalls>>

CalculateAffinityScore ==
  /\ \E name \in Scored \cup {Stranger} \cup ProtoNames :
       Returns("calculateAffinityScore", ToString(name),
               [Store EXCEPT !.answer = Answer("calculateAffinityScore", FALSE,
                                               <<calculateAffinityScore(state, name)>>)],
               ncalls)
  /\ UNCHANGED <<inserted, cycle, followCalls>>

GetFollowCandidates ==
  /\ \E threshold \in Thresholds :
       Returns("getFollowCandidates", ToString(threshold), getFollowCandidates(Store, threshold),
               ncalls)
  /\ UNCHANGED <<inserted, cycle, followCalls>>

NextScore ==
  \/ RecordAmong(Scored \cup ProtoNames, Counters)
  \/ CalculateAffinityScore

SpecScore == Init /\ [][NextScore]_vars

NextCandidates ==
  \/ RecordAmong(Rated, RatedBy)
  \/ MarkFollowedAmong(Rated)
  \/ GetFollowCandidates

SpecCandidates == Init /\ [][NextCandidates]_vars

\* ---- the sleep window: isSleepTime(hour, mood)
\* the moods getTodaysMood() draws
Moods ==
  [sleepQuality : {"insomnia"}, wakeUpHour : 4..6, sleepHour : {26}]
    \cup [sleepQuality : {"bad"}, wakeUpHour : 9..11, sleepHour : {2}]
    \cup [sleepQuality : {"good"}, wakeUpHour : 5..6, sleepHour : {23}]
    \cup [sleepQuality : {"normal"}, wakeUpHour : 7..8, sleepHour : {24}]

\* isSleepTime() with || for && in the window past midnight
isSleepTime_or(hour, mood) ==
  IF mood.sleepHour > 24 THEN hour >= mood.sleepHour - 24 \/ hour < mood.wakeUpHour
  ELSE IF mood.sleepHour = 24 THEN hour >= 0 /\ hour < mood.wakeUpHour
  ELSE hour >= mood.sleepHour \/ hour < mood.wakeUpHour

isSleepTime(hour, mood) ==
  IF mood.sleepHour > 24 THEN hour >= mood.sleepHour - 24 /\ hour < mood.wakeUpHour
  ELSE IF mood.sleepHour = 24 THEN hour >= 0 /\ hour < mood.wakeUpHour
  ELSE hour >= mood.sleepHour \/ hour < mood.wakeUpHour

\* a call of isSleepTime: the answer, and the hour and the mood's two hours
\* getActivityLevel() at the hour, for the day's mood; r is
\* getRandomForHour(hour) in percent
getActivityLevel(hour, mood, r) ==
  LET insomnia == mood.sleepQuality = "insomnia"
  IN IF insomnia /\ hour >= 2 /\ hour < 4 THEN "drowsy"
     ELSE IF insomnia /\ hour >= 4 /\ hour < 6 THEN "low"
     ELSE IF isSleepTime(hour, mood) /\ ~insomnia THEN "sleeping"
     ELSE IF hour >= mood.wakeUpHour /\ hour < mood.wakeUpHour + 2 THEN "drowsy"
     ELSE IF (hour >= 23 \/ hour < 2) /\ mood.sleepQuality # "good"
     THEN IF r < 20 THEN "hyper" ELSE "low"
     ELSE IF hour >= 19 /\ hour < 23 THEN "high"
     ELSE IF hour >= 14 /\ hour < 16 /\ r < 30 THEN "drowsy"
     ELSE "normal"

IsSleepTime ==
  /\ \E hour \in 0..MaxHour, mood \in Moods :
       Returns("isSleepTime", ToString(hour),
               [Store EXCEPT !.answer = Answer("isSleepTime", isSleepTime(hour, mood),
                                               <<hour, mood.sleepHour, mood.wakeUpHour>>)],
               ncalls)
  /\ UNCHANGED <<inserted, cycle, followCalls>>

SpecSleepTime == Init /\ [][IsSleepTime]_vars

\* ---- a later StateManager of the same process
\* new StateManager(path): path is the file written so far ("same") or a
\* path where no file is ("other"); the new instance is the one called from
\* then on
Construct(n) ==
  /\ \E path \in {"same", "other"} :
       Returns("construct", path,
               load([Store EXCEPT !.file = IF path = "same" THEN @ ELSE NoFile]), n)
  /\ UNCHANGED <<inserted, cycle, followCalls>>

NextInstances ==
  /\ ncalls < MaxCalls
  /\ \/ \E w \in WriteOutcomes :
          \/ MarkSeen(w, TRUE, ncalls + 1)
          \/ MarkCommented(w, TRUE, ncalls + 1)
          \/ MarkUpvoted(w, TRUE, ncalls + 1)
          \/ RecordCommentTarget(w, ncalls + 1)
          \/ UpdateLastPostTime(w, ncalls + 1)
          \/ Record(w, ncalls + 1)
          \/ MarkFollowed(w, ncalls + 1)
     \/ Construct(ncalls + 1)

SpecInstances == Init /\ [][NextInstances]_vars

\* ---- the activity level: the sleep-gated tasks of main() and heartbeat()

\* the hour changes and getActivityLevel() answers another level
LevelChanges ==
  /\ \E l \in Levels \ {level} : level' = l
  /\ op' = Op("hour", "")
  /\ log' = <<>>
  /\ escaped' = FALSE
  /\ lastRunSet' = {}
  /\ UNCHANGED <<tasks, running, isRunning, timers, timerId, calls, loops, queueVars, sinceWrite, beat, storeVars>>

\* a heartbeat() call, from its first line to its return
Heartbeat ==
  /\ \E skipDraw \in BOOLEAN, due \in DueSets, getMeFails \in BOOLEAN :
       beat' = heartbeat(level, skipDraw, due, getMeFails)
  /\ op' = Op("heartbeat", "")
  /\ log' = <<>>
  /\ escaped' = FALSE
  /\ lastRunSet' = {}
  /\ UNCHANGED <<tasks, running, isRunning, timers, timerId, calls, loops, queueVars, sinceWrite, level, storeVars>>

NextSleep ==
  \/ Start(SleepGate)
  \/ \E t \in Tasks : TimerFires(t, SleepGate)
  \/ \E t \in Tasks : FnReturns(t, "ok", SleepGate)
  \/ \E t \in Tasks : FnReturns(t, "throw", SleepGate)
  \/ Tick
  \/ LevelChanges
  \/ Heartbeat

SpecSleep == Init /\ [][NextSleep]_vars

\* ---- remote calls on their own: one call at a time, outside any cycle
\* what a step of a remote call leaves of the rest
RemoteStep(kind, arg) ==
  /\ op' = Op(kind, arg)
  /\ answer' = NoAnswer
  /\ log' = <<>>
  /\ escaped' = FALSE
  /\ lastRunSet' = {}
  /\ UNCHANGED <<tasks, running, isRunning, timers, timerId, calls, loops, queueVars,
                 sinceWrite, agentVars, state, file, inserted, again, ncalls, defaults, aliased,
                 offset, cycle, followCalls>>

\* a response as the step it answers shows it: its status, and the retry-after
\* field of its body if it has one
Told(r) ==
  IF r.retry_after_seconds # 0 THEN ToString(r.status) \o " retry_after_seconds"
  ELSE IF r.retry_after_minutes # 0 THEN ToString(r.status) \o " retry_after_minutes"
  ELSE ToString(r.status)

\* chat() or request() is called and sends its first request
CallStarts(client) ==
  /\ feed.at = "idle"
  /\ call.result # "pending"
  /\ call' = Calling(client)
  /\ RemoteStep("call", client)
  /\ UNCHANGED feed

\* the request in flight is answered
ResponseArrives(r) ==
  /\ feed.at = "idle"
  /\ call.result = "pending"
  /\ call' = answered(call, r)
  /\ RemoteStep("response", Told(r))
  /\ UNCHANGED feed

NextRemote ==
  \/ \E client \in Clients : CallStarts(client)
  \/ \E r \in Responses : ResponseArrives(r)

SpecRemote == Init /\ [][NextRemote]_vars

\* ---- the feed cycle: checkFeed() and maybeCreatePost(), one call at a time
\* the posts the forum holds at the n-th call: one more at every call, the
\* second by the agent itself, the others by a peer
AuthorOf(id) == IF id = 2 THEN MyName ELSE 2

Posts(n) == {[id |-> i, author |-> AuthorOf(i)] : i \in 1..n}

\* what getPosts returns: up to two posts, a post twice included
Feeds(n) == {<<>>} \cup {<<p>> : p \in Posts(n)} \cup {<<p, q>> : p, q \in Posts(n)}

Judgments == [should_upvote : BOOLEAN, should_comment : BOOLEAN]

\* Math.random(), in percent
Draws == {0, 99}

\* what the remote side and Math.random() give to the step that follows the
\* await at: the posts of the feed, the judgment and whether the model's
\* text parses, and the draw where the step may reach the comment test
Inputs(at, feeds) ==
  [posts : IF at = "getPosts" THEN feeds ELSE {<<>>},
   judgment : IF at = "judging" THEN Judgments ELSE {NoJudgment},
   parses : IF at \in {"judging", "generating", "generatingPost"} THEN BOOLEAN ELSE {TRUE},
   draw : IF at \in {"judging", "upvoting"} THEN Draws ELSE {0}]

\* the answers tried in a cycle: the model only fails with a 400 or a 500,
\* the forum with a 400 or a rate limit, with or without its retry-after
CycleResponses(client) ==
  IF client = "Moltbook"
  THEN {Response(200, "text", 0, 0), Response(400, "none", 0, 0), Response(429, "none", 0, 0),
        Response(429, "none", 0, RetryAfterSeconds)}
  ELSE {Response(200, "text", 0, 0), Response(400, "none", 0, 0), Response(500, "none", 0, 0)}

\* the feed-check task, or heartbeat(), calls checkFeed(): getPosts is sent
CheckFeed ==
  /\ feed.at = "idle"
  /\ feed.cycles < MaxCycles
  /\ feed' = [Called(feed) EXCEPT !.at = "getPosts"]
  /\ call' = Calling("Moltbook")
  /\ Leaves("checkFeed", "", Store, ncalls)
  /\ UNCHANGED <<inserted, cycle, followCalls>>

\* the call that checkFeed() or processPost() awaits is answered: chat()
\* sleeps and asks again, or the handler goes on to its next await
FeedStep(r, in) ==
  LET c == answered(call, r)
      f == [feed EXCEPT !.sleeps = <<>>]
      to == IF c.result = "pending" THEN At(Store, f, c)
            ELSE feedResumes(Store, f, c, in, level, "ok", today, clock)
  IN /\ Leaves(feed.at, Told(r), to.m, ncalls)
     /\ feed' = to.f
     /\ call' = to.c
     /\ UNCHANGED <<inserted, cycle, followCalls>>

FeedAnswered(feeds) ==
  /\ feed.at \notin {"idle"} \cup PostStages
  /\ \E r \in CycleResponses(call.client) :
       \E in \in Inputs(IF answered(call, r).result = "pending" THEN "retry" ELSE feed.at, feeds) :
          FeedStep(r, in)

\* the post-attempt task, or heartbeat(), calls maybeCreatePost()
MaybeCreatePost ==
  /\ feed.at = "idle"
  /\ feed.cycles < MaxCycles
  /\ \E draw \in Draws :
       LET to == maybeCreatePost(Store, Called(feed), call, clock, draw)
       IN /\ Leaves("maybeCreatePost", ToString(draw), to.m, ncalls)
          /\ feed' = to.f
          /\ call' = to.c
  /\ UNCHANGED <<inserted, cycle, followCalls>>

\* the call that maybeCreatePost() awaits is answered
PostAnswered ==
  /\ feed.at \in PostStages
  /\ \E r \in CycleResponses(call.client) :
       LET c == answered(call, r)
       IN \E in \in Inputs(IF c.result = "pending" THEN "retry" ELSE feed.at, {<<>>}) :
            LET to == IF c.result = "pending" THEN At(Store, feed, c)
                      ELSE postResumes(Store, feed, c, in, "ok", today, clock)
            IN /\ Leaves(feed.at, Told(r), to.m, ncalls)
               /\ feed' = to.f
               /\ call' = to.c
  /\ UNCHANGED <<inserted, cycle, followCalls>>

NextFeed ==
  \/ CheckFeed
  \/ FeedAnswered(Feeds(feed.cycles))

SpecFeed == Init /\ [][NextFeed]_vars

\* ---- rate limits: feeds of one post, once or twice included, and posts of
\* the agent's own
OnePostFeeds == {<<p>> : p \in Posts(1)} \cup {<<p, p>> : p \in Posts(1)}

NextRateLimit ==
  \/ CheckFeed
  \/ FeedAnswered(OnePostFeeds)
  \/ MaybeCreatePost
  \/ PostAnswered

SpecRateLimit == Init /\ [][NextRateLimit]_vars

\* ---- the ID lists over time: the seen list also takes the keys of the
\* replies that checkReplies marks seen, and keeps MAX_SEEN_IDS entries; of
\* its entries the model holds the post IDs, so a markSeen of a reply key that
\* overflows the list is seen as the loss of the oldest post ID; it is taken
\* between two checkFeed() calls
SeenEvicted ==
  /\ feed.at = "idle"
  /\ state.seenPostIds # <<>>
  /\ Leaves("markSeen", "reply", save([Store EXCEPT !.state.seenPostIds = Tail(@)], "ok", today), ncalls)
  /\ UNCHANGED <<inserted, cycle, followCalls, remoteVars>>

NextVotes ==
  \/ CheckFeed
  \/ FeedAnswered(OnePostFeeds)
  \/ SeenEvicted

SpecVotes == Init /\ [][NextVotes]_vars

\* ---- the throttle: one feed of MaxFeedLen posts by three peers, two posts
\* in a row by each; every call returns, the agent is judged to comment on a
\* post or not, and the draw is in favour of the comment
AuthorAt(i) == 2 + (((i - 1) \div 2) % 3)

ThrottleFeed == [i \in 1..MaxFeedLen |-> [id |-> i, author |-> AuthorAt(i)]]

ThrottleInputs(at) ==
  [posts : IF at = "getPosts" THEN {ThrottleFeed} ELSE {<<>>},
   judgment : IF at = "judging" THEN [should_upvote : {FALSE}, should_comment : BOOLEAN]
              ELSE {NoJudgment},
   parses : {TRUE},
   draw : {0}]

ThrottleAnswered ==
  /\ feed.at \notin {"idle"} \cup PostStages
  /\ \E in \in ThrottleInputs(feed.at) : FeedStep(Response(200, "text", 0, 0), in)

NextThrottle ==
  \/ CheckFeed
  \/ ThrottleAnswered

SpecThrottle == Init /\ [][NextThrottle]_vars

\* ---- the activity level through the day: getActivityLevel() is asked at
\* every hour of a day, under the mood getTodaysMood() has cached for the day
\* Date.getHours()
Hours == 0..23

\* the mood of a day, told by its sleepHour and wakeUpHour
MoodOf(sleepHour, wakeUpHour) ==
  CHOOSE mood \in Moods : mood.sleepHour = sleepHour /\ mood.wakeUpHour = wakeUpHour

\* getActivityLevel() is asked at the hour: the level is set, and the answer
\* tells the hour, the day's mood and whether a level other than sleeping was
\* answered at an hour of the day so far
Asked(hour, mood, awake) ==
  /\ \E r \in Draws :
       LET l == getActivityLevel(hour, mood, r)
       IN /\ level' = l
          /\ answer' = Answer("getActivityLevel", awake \/ l # "sleeping",
                              <<hour, mood.sleepHour, mood.wakeUpHour>>)
  /\ op' = Op("getActivityLevel", ToString(hour))
  /\ log' = <<>>
  /\ escaped' = FALSE
  /\ lastRunSet' = {}
  /\ UNCHANGED <<tasks, running, isRunning, timers, timerId, calls, loops, queueVars, sinceWrite,
                 beat, state, file, inserted, again, ncalls, defaults, aliased, offset, cycle,
                 followCalls, remoteVars>>

\* a day begins: getTodaysMood() finds no mood cached for it and draws one
DayBegins ==
  /\ answer.kind = "getActivityLevel" => answer.val[1] = 23
  /\ \E mood \in Moods : Asked(0, mood, FALSE)

\* the next hour of the day, the mood cached
HourPasses ==
  /\ answer.kind = "getActivityLevel"
  /\ answer.val[1] < 23
  /\ Asked(answer.val[1] + 1, MoodOf(answer.val[2], answer.val[3]), answer.yes)

NextLevel ==
  \/ DayBegins
  \/ HourPasses

SpecLevel == Init /\ [][NextLevel]_vars

\* ------------------------------------------------------------ vocabulary
Index(t) == CHOOSE i \in 1..NumTasks : TaskOrder[i] = t

Hung(t) == \E i \in 1..Len(calls[t]) : calls[t][i].hung

\* state.timerId refers to a timer that is still pending
HandlePending(t) == \E tm \in timers[t] : tm.id = timerId[t]

\* the latest start() call has run or scheduled u, or is awaiting its fn
Reached(u) == loops # <<>> /\ Index(u) <= loops[Len(loops)]

\* the handler that just ran armed one timer for t, with a delay of t's range
Rearmed(t) ==
  LET fired == IF op'.kind = "timer" /\ op'.task = t THEN 1 ELSE 0
  IN /\ Cardinality(timers'[t]) = Cardinality(timers[t]) - fired + 1
     /\ \E tm \in timers'[t] :
          /\ tm.id = timerId'[t]
          /\ tm.left \in getRandomInterval(IntervalMin(t), IntervalMax(t))

\* ------------------------------------------------------------------ C1
\* C1: no task ever has two invocations of its fn in progress, whatever the
\* interleaving of timer firings, settlements, start() and stop(); and when a
\* timer of a running scheduler fires while the task's previous invocation is
\* still in progress, fn is not invoked, exactly one warning is logged and a
\* new timer with a freshly drawn delay is armed (after stop() the firing of a
\* timer returns at once).
C1_NoOverlap ==
  [][/\ \A t \in Tasks : Len(calls'[t]) <= 1
     /\ \A t \in Tasks :
          (op'.kind = "timer" /\ op'.task = t /\ isRunning[t] /\ running) =>
            /\ ~Logged(log', "begin", t)
            /\ calls' = calls
            /\ isRunning' = isRunning
            /\ Warnings(log') = 1
            /\ Logged(log', "overlap", t)
            /\ Rearmed(t)]_vars

C1_Witness ==
  /\ op.kind = "timer"
  /\ Logged(log, "overlap", op.task)
  /\ calls[op.task] # <<>>
  /\ HandlePending(op.task)

\* ------------------------------------------------------------------ C3
\* C3 as stated: while the scheduler is running and some task's fn is hung,
\* every other task is in flight or has a pending timer.
C3_Original ==
  \A t \in Tasks : (running /\ Hung(t)) =>
    \A u \in Tasks \ {t} : isRunning[u] \/ timers[u] # {}

\* C3 amended: a hung fn stalls only its own task among the tasks that the
\* latest start() call has already run or scheduled: each of those is in flight
\* or has a pending timer while the scheduler is running, and its due timer
\* still invokes fn or takes the disabled branch.  A start() call that awaits
\* a hung initial run never reaches the tasks registered after it.
C3_Amended ==
  [][\A t \in Tasks : \A u \in Tasks \ {t} :
       /\ (running' /\ Hung(t)' /\ Reached(u)') => (isRunning'[u] \/ timers'[u] # {})
       /\ (running /\ Hung(t) /\ ~isRunning[u] /\ op'.kind = "timer" /\ op'.task = u) =>
             (Logged(log', "begin", u) \/ Logged(log', "disabled", u))
       /\ (Hung(t) /\ \E i \in 1..Len(calls[t]) : calls[t][i].hung /\ calls[t][i].by > 0
                                                  /\ Index(u) > Index(t))
             => \A k \in 1..Len(loops) : (\E i \in 1..Len(calls[t]) : calls[t][i].by = k) => loops'[k] = loops[k]]_vars

C3_Witness ==
  /\ running
  /\ Hung("comment-queue")
  /\ op.kind = "timer"
  /\ op.task = "feed-check"
  /\ Logged(log, "begin", "feed-check")

\* ------------------------------------------------------------------ C4
\* C4: when fn throws, nothing escapes the scheduler, isRunning is false again
\* and one new timer is armed for the task; the other tasks are left as a
\* normal return would leave them; and with fair timers the task's fn is
\* invoked again at a later firing.
C4_ThrowHandled ==
  /\ [][\A t \in Tasks : Logged(log', "error", t) =>
          /\ ~escaped'
          /\ ~isRunning'[t]
          /\ Rearmed(t)
          /\ (\A i \in 1..Len(calls[t]) : calls[t][i].by = 0) => \A u \in Tasks \ {t} :
                timers'[u] = timers[u] /\ isRunning'[u] = isRunning[u] /\ calls'[u] = calls[u]
          /\ op'.kind = "throw" =>
                \E i \in 1..Len(calls[t]) :
                  LET k == calls[t][i].by
                      rest == IF k = 0 THEN NumTasks + 1 ELSE loops[k] + 1
                  IN \E modes \in FnChoices(RunFrom(rest)), ds \in DelayDraws({t} \cup From(rest)),
                        gate \in GateResults :
                       LET a == fnResumes(Entering, t, i, "ok", modes, [u \in Tasks |-> gate], ds)
                       IN /\ a.timers = timers' /\ a.timerId = timerId'
                          /\ a.isRunning = isRunning' /\ a.calls = calls'
                          /\ a.loops = loops' /\ a.running = running']_vars
  /\ \A t \in Tasks : (op.kind # "timer" /\ Logged(log, "error", t))
                          ~> (op.kind = "timer" /\ Logged(log, "begin", t))

C4_Witness ==
  /\ op.kind = "throw"
  /\ Logged(log, "error", op.task)
  /\ running
  /\ HandlePending(op.task)

\* ----------------------------------------------------------------- C12
\* C12: when a timer fires, or start() reaches a task, and enabled() answers
\* false, fn is not invoked, isRunning and lastRun are left alone, nothing is
\* logged as an error or thrown, and one new timer with a delay drawn from the
\* task's range is armed for the task.
C12_Disabled ==
  [][\A t \in Tasks : Logged(log', "disabled", t) =>
       /\ op'.kind \in {"timer", "start"}
       /\ ~Logged(log', "begin", t)
       /\ calls'[t] = calls[t]
       /\ isRunning'[t] = isRunning[t]
       /\ t \notin lastRunSet'
       /\ \A i \in 1..Len(log') : log'[i].task = t => log'[i].level \notin {"error", "warn"}
       /\ ~escaped'
       /\ Rearmed(t)]_vars

C12_Witness ==
  /\ op.kind = "timer"
  /\ Logged(log, "disabled", op.task)
  /\ running
  /\ HandlePending(op.task)
  /\ \E u \in Tasks \ {op.task} : isRunning[u]

\* ----------------------------------------------------------------- C13
\* the k-th start() call runs a part of its for-loop in this step
LoopMoves(k) == k > Len(loops) \/ loops'[k] # loops[k]

\* the positions of the for-loop the k-th start() call handles in this step
Handled(k) ==
  (IF k > Len(loops) THEN 1 ELSE loops[k] + 1)..(IF loops'[k] > NumTasks THEN NumTasks ELSE loops'[k])

\* the k-th start() call returns in this step
Completes(k) == k \in 1..Len(loops') /\ LoopMoves(k) /\ loops'[k] = NumTasks + 1

\* what start() does with each task it reaches while the scheduler runs: a
\* task that is to run on start and is not in flight is invoked, unless its
\* enabled() answers false, and start() awaits it; a task in flight is not
\* invoked again; a task with runOnStart = false is not invoked and gets its
\* first timer, with a delay drawn from its range.
StartHandles ==
  \A k \in 1..Len(loops') : (LoopMoves(k) /\ running') =>
    \A i \in Handled(k) :
      LET t == TaskOrder[i]
      IN IF t # "comment-queue"
         THEN /\ isRunning[t] => (Logged(log', "overlap", t) /\ ~Logged(log', "begin", t))
              /\ ~isRunning[t] =>
                    /\ Logged(log', "begin", t) # Logged(log', "disabled", t)
                    /\ Logged(log', "begin", t) =>
                          /\ loops'[k] = i
                          /\ calls'[t] = <<[by |-> k, hung |-> calls'[t][1].hung]>>
                    /\ Logged(log', "disabled", t) => HasEnabled(t)
         ELSE /\ ~Logged(log', "begin", t)
              /\ calls'[t] = calls[t]
              /\ \E tm \in timers'[t] :
                    /\ tm.id = timerId'[t]
                    /\ tm.left \in getRandomInterval(IntervalMin(t), IntervalMax(t))
                    /\ tm \notin timers[t]

Armed(t) == timers'[t] \ timers[t]

\* C15: every timer armed for a task is due between intervalMin and
\* intervalMax after the moment it is armed, and a handler that ends a run
\* (fn returned or threw), finds the task disabled or finds it in flight arms
\* one timer with a delay of its own draw while the scheduler runs.
C15_Delays ==
  [][op'.kind # "tick" => \A t \in Tasks :
       /\ \A tm \in Armed(t) : IntervalMin(t) <= tm.left /\ tm.left <= IntervalMax(t)
       /\ (running' /\ \E m \in {"done", "error", "disabled", "overlap"} : Logged(log', m, t)) =>
             /\ \E tm \in Armed(t) : tm.id = timerId'[t]
             /\ Cardinality(Armed(t)) <= 2
       /\ Armed(t) # {} => running']_vars

C15_Witness ==
  /\ op.kind = "timer"
  /\ Logged(log, "overlap", op.task)
  /\ \E tm \in timers[op.task] : tm.id = timerId[op.task] /\ tm.left = IntervalMax(op.task)
  /\ IntervalMin(op.task) < IntervalMax(op.task)

\* ------------------------------------------------------------------ C5
\* C5 as stated: no exception leaves a timer callback, and the handling of a
\* firing at a running scheduler ends with a pending timer for the task.
C5_Claim ==
  [][\A t \in Tasks :
       /\ (op'.kind = "timer" /\ op'.task = t) => ~escaped'
       /\ (op'.kind = "timer" /\ op'.task = t /\ running /\ calls'[t] = calls[t]) => HandlePending(t)'
       /\ (op'.kind \in {"ok", "throw"} /\ op'.task = t /\ running) => HandlePending(t)']_vars

\* ------------------------------------------------------------------ C9
\* C9 as stated: once stop() has returned and until the next start(), no
\* timer is pending and no fn is invoked.
C9_Claim ==
  [][/\ ~running' => \A t \in Tasks : timers'[t] = {}
     /\ (~running /\ ~running') => \A t \in Tasks : ~Logged(log', "begin", t)]_vars

\* ------------------------------------------------------------------ C2
\* C2 as stated: the daily counter never exceeds MAX_DAILY_COMMENTS.
C2_Claim == dailyCount <= MAX_DAILY_COMMENTS

\* ------------------------------------------------------------------ C6
Range(seq) == {seq[i] : i \in 1..Len(seq)}

NoDuplicates(seq) == \A i, j \in 1..Len(seq) : seq[i] = seq[j] => i = j

\* C6: a job is handed to the remote write at most once: no job occurs twice
\* among the jobs sent, a sent job is never in the queue again, and a failed
\* write leaves the queue, the jobs sent and dailyCount as they were while the
\* job is gone.
C6_AtMostOnce ==
  [][/\ NoDuplicates(sent')
     /\ Range(sent') \cap Range(queue') = {}
     /\ Range(sent') \subseteq Range(accepted')
     /\ posting' \subseteq Range(sent')
     /\ op'.kind = "write-failed" =>
          /\ dailyCount' = dailyCount
          /\ queue' = queue
          /\ sent' = sent
          /\ \E job \in posting : posting' = posting \ {job} /\ job \notin Range(queue')]_vars

C6_Witness ==
  /\ op.kind = "write-failed"
  /\ sent # <<>>
  /\ posting = {}
  /\ queue # <<>>

\* ------------------------------------------------------------------ C7
\* the daily counter as enqueue sees it after resetDailyIfNeeded
CountAfterReset == IF lastDate # today THEN 0 ELSE dailyCount

\* C7: enqueue returns false and leaves the queue and the counter alone exactly
\* when, after the lazy reset, dailyCount + queue length >= 45; otherwise it
\* appends the job at the tail and returns true; it always returns.  With
\* dailyCount = 44 an enqueue on an empty queue succeeds and one on a queue of
\* one job is rejected.
C7_Enqueue ==
  [][op'.kind = "enqueue" =>
       /\ ret' \in {"true", "false"}
       /\ ret' = "false" <=> CountAfterReset + Len(queue) >= 45
       /\ dailyCount' = CountAfterReset
       /\ ret' = "false" => queue' = queue
       /\ ret' = "true" => queue' = Append(queue, nextJob)
       /\ (CountAfterReset = 44 /\ Len(queue) = 0) => ret' = "true"
       /\ (CountAfterReset = 44 /\ Len(queue) = 1) => ret' = "false"]_vars

C7_Witness ==
  /\ op.kind = "enqueue"
  /\ ret = "false"
  /\ dailyCount = 44
  /\ Len(queue) = 1
  /\ lastDate = today

\* ------------------------------------------------------------------ C8
\* C8: the jobs handed to the remote write, followed by the jobs waiting, are
\* the jobs accepted, in the order of acceptance; a processOne call hands over
\* at most one job and, on an empty queue, none.
C8_Fifo ==
  [][/\ sent' \o queue' = accepted'
     /\ op'.kind = "processOne" =>
          /\ queue = <<>> => (sent' = sent /\ posting' = posting /\ queue' = <<>>)
          /\ queue # <<>> => (sent' = Append(sent, Head(queue)) /\ queue' = Tail(queue))]_vars

C8_Witness ==
  /\ op.kind = "processOne"
  /\ Len(sent) >= 2
  /\ queue # <<>>

QueueCall == op'.kind \in {"enqueue", "processOne", "getStats"}

\* what the call does once the counter has the value n
OwnLogic(n) ==
  /\ op'.kind = "enqueue" =>
        /\ ret' = "true" <=> n + Len(queue) < MAX_DAILY_COMMENTS
        /\ queue' = IF ret' = "true" THEN Append(queue, nextJob) ELSE queue
  /\ op'.kind = "processOne" =>
        /\ queue' = IF queue = <<>> THEN queue ELSE Tail(queue)
        /\ sent' = IF queue = <<>> THEN sent ELSE Append(sent, Head(queue))
  /\ op'.kind = "getStats" =>
        /\ queue' = queue
        /\ stats' = [queueLength |-> Len(queue), dailyCount |-> n,
                     dailyRemaining |-> Max0(MAX_DAILY_COMMENTS - n - Len(queue))]

C16_LazyReset ==
  [][QueueCall =>
       IF lastDate # today
       THEN dailyCount' = 0 /\ lastDate' = today /\ OwnLogic(0)
       ELSE dailyCount' = dailyCount /\ lastDate' = lastDate /\ OwnLogic(dailyCount)]_vars

\* a getStats call after midnight resets a counter that was in use and
\* keeps the waiting job
C16_Witness ==
  /\ op.kind = "getStats"
  /\ today = 2
  /\ lastDate = 2
  /\ stats.dailyCount = 0
  /\ stats.queueLength = 1
  /\ Len(sent) = 1

\* ------------------------------------------------------------------ C17
\* C17: after initializeDailyCount(c) on a fresh queue the seeded count is
\* not reset by the next operation of the same day.  On that day, while no
\* job is drained, the counter stays c, enqueue accepts exactly
\* max(0, 45 - c) jobs before it rejects, and getStats reports
\* dailyCount = c.
C17_Seeded ==
  seed # NullSeed =>
    /\ dailyCount = seed
    /\ lastDate = today
    /\ Len(accepted) <= Max0(MAX_DAILY_COMMENTS - seed)
    /\ (op.kind = "enqueue" /\ ret = "false") => Len(accepted) = Max0(MAX_DAILY_COMMENTS - seed)
    /\ op.kind = "getStats" => stats.dailyCount = seed

\* seeded with 44: one job accepted, the next rejected
C17_Witness ==
  /\ seed = MAX_DAILY_COMMENTS - 1
  /\ op.kind = "enqueue"
  /\ ret = "false"
  /\ Len(accepted) = 1
  /\ nextJob = 3

\* ------------------------------------------------------------------ C11
\* C11 as stated: while the activity level is sleeping, heartbeat() returns
\* before any remote call or state mutation and no registered task executes
\* its body at a timer firing.
C11_Original ==
  [][level = "sleeping" =>
       /\ op'.kind = "heartbeat" => beat' = NoBeat
       /\ op'.kind = "timer" => \A t \in Tasks : ~Logged(log', "begin", t)]_vars

\* C11, amended: while the activity level is sleeping, heartbeat() returns
\* before any remote call or state mutation, and no task registered with the
\* sleep gate executes its body at a timer firing: it is skipped and
\* scheduled again.
C11_Amended ==
  [][level = "sleeping" =>
       /\ op'.kind = "heartbeat" => beat' = NoBeat
       /\ op'.kind = "timer" =>
             \A t \in Tasks : HasEnabled(t) =>
                /\ ~Logged(log', "begin", t)
                /\ calls'[t] = calls[t]
                /\ op'.task = t => Logged(log', "disabled", t) \/ Logged(log', "overlap", t)]_vars

\* the timer of a sleep-gated task fires while the agent sleeps
C11_Witness ==
  /\ level = "sleeping"
  /\ op = Op("timer", "feed-check")
  /\ Logged(log, "disabled", "feed-check")
  /\ ~isRunning["feed-check"]

\* ------------------------------------------------------------------ C14
\* C14: register(config) with a name that is already registered throws and
\* leaves the state of the task registered under that name (config, lastRun,
\* timer, isRunning) as it was; with a new name it adds the task; the
\* scheduler never holds two tasks with one name.
C14_Register ==
  [][/\ \A i, j \in 1..Len(tasks') : tasks'[i].name = tasks'[j].name => i = j
     /\ op'.kind = "register" =>
           IF op'.task \in Names(tasks)
           THEN /\ escaped'
                /\ tasks' = tasks
                /\ isRunning' = isRunning
                /\ timerId' = timerId
                /\ timers' = timers
                /\ calls' = calls
                /\ lastRunSet' = {}
           ELSE /\ ~escaped'
                /\ Names(tasks') = Names(tasks) \cup {op'.task}
                /\ \A i \in 1..Len(tasks) : tasks'[i] = tasks[i]]_vars

\* a second register() for a task that is in flight
C14_Witness ==
  /\ op = Op("register", "feed-check")
  /\ escaped
  /\ isRunning["feed-check"]
  /\ running
  /\ tasks = RegisteredByMain

\* ------------------------------------------------------------------ C18
\* C18: marking is idempotent.  After a markSeen, markCommented or
\* markUpvoted call the list holds the ID exactly once, the call has added
\* one to its counter (totalComments, totalUpvotes) if the ID was not in the
\* list and nothing otherwise, and the same call made again at once changes
\* neither the state nor the file.
Occurrences(l, x) == Cardinality({i \in 1..Len(l) : l[i] = x})

Counter(f, st) ==
  IF f = "commentedPostIds" THEN st.stats.totalComments
  ELSE IF f = "upvotedPostIds" THEN st.stats.totalUpvotes ELSE 0

C18_Idempotent ==
  [][\A f \in IdLists : \A id \in IdsOffered(f) :
       (op'.kind = MarkName(f) /\ op'.task = ToString(id)) =>
          /\ Occurrences(state'[f], id) = 1
          /\ f # "seenPostIds" =>
                Counter(f, state') = Counter(f, state) + (IF Includes(state[f], id) THEN 0 ELSE 1)
          /\ state'.stats.totalPosts = state.stats.totalPosts
          /\ state'.stats.totalFollows = state.stats.totalFollows
          /\ \A g \in IdLists \ {f} : state'[g] = state[g] /\ Counter(g, state') = Counter(g, state)
          /\ again' => state' = state /\ file' = file /\ log' = <<>>]_vars

\* markCommented called twice with one ID
C18_Witness ==
  /\ again
  /\ op = Op("markCommented", "1")
  /\ state.commentedPostIds = <<1>>
  /\ state.stats.totalComments = 1

\* ------------------------------------------------------------------ C19
\* C19: from the default state on, each of the three ID lists has no
\* duplicates and at most MAX_SEEN_IDS = 500 entries, and holds the newest
\* 500 of the IDs inserted into it, in insertion order.
C19_Bounded ==
  \A f \in IdLists :
    /\ Len(state[f]) <= MAX_SEEN_IDS
    /\ Cardinality({state[f][i] : i \in 1..Len(state[f])}) = Len(state[f])
    /\ state[f] = SliceLast(inserted[f], MAX_SEEN_IDS)

\* the 501st ID has pushed the first one out
C19_Witness ==
  /\ Len(inserted["seenPostIds"]) = MAX_SEEN_IDS + 1
  /\ Len(state.seenPostIds) = MAX_SEEN_IDS
  /\ Head(state.seenPostIds) = 2
  /\ state.seenPostIds[MAX_SEEN_IDS] = MAX_SEEN_IDS + 1

\* ------------------------------------------------------------------ C20
\* C20: persist-after-mutate.  When a mutator of the StateManager returns
\* and no write error was logged, the state file holds the state in memory,
\* or the call has changed nothing and written nothing.
Mutators ==
  {"markSeen", "markCommented", "markUpvoted", "recordCommentTarget", "update",
   "updateLastPostTime", "updateSkillVersion", "record", "markFollowed", "canFollowToday"}

C20_Persisted ==
  [][(op'.kind \in Mutators /\ ~Logged(log', "save-failed", "")) =>
       \/ file' = Json(state')
       \/ state' = state /\ file' = file]_vars

\* canFollowToday on the day after a follow: the reset count is in the file
C20_Witness ==
  /\ op.kind = "canFollowToday"
  /\ today = 2
  /\ state.lastFollowDate = 2
  /\ state.dailyFollowCount = 0
  /\ state.followedMolties = <<1>>
  /\ file = Json(state)

\* ------------------------------------------------------------------ C21
\* C21: constructing a StateManager on a missing or corrupt state file
\* throws nothing and yields the default state (ID lists empty, no
\* affinities, no followed peers, counters 0, timestamps null), whatever
\* earlier instances of the same process have done.
C21_Claim ==
  [][(op'.kind = "construct" /\ file'.kind # "json") =>
       (~escaped' /\ state' = DEFAULT_STATE)]_vars

\* ------------------------------------------------------------------ C22
\* C22: when the write of the state file fails, the mutator returns
\* normally, the state in memory is the one the call has made (humanAge
\* aside, which save() sets), and the file keeps its previous content.
Effects(k) ==
  IF k \in {MarkName(f) : f \in IdLists}
  THEN UNION {{mark(f, Store, id, "ok", today) : id \in IdsOffered(f)} :
                f \in {f \in IdLists : MarkName(f) = k}}
  ELSE IF k = "recordCommentTarget"
  THEN {recordCommentTarget(Store, name, "ok", today) : name \in Molties}
  ELSE IF k = "update" THEN {updateStamp(Store, field, "ok", today, clock) : field \in Stamps}
  ELSE IF k = "updateLastPostTime" THEN {updateLastPostTime(Store, "ok", today, clock)}
  ELSE IF k = "updateSkillVersion"
  THEN {updateSkillVersion(Store, v, "ok", today, clock) : v \in Versions}
  ELSE IF k = "record"
  THEN {record(Store, counter, name, "ok", today, clock) : counter \in Counters, name \in Molties}
  ELSE IF k = "markFollowed" THEN {markFollowed(Store, name, "ok", today, clock) : name \in Molties}
  ELSE {canFollowToday(Store, MaxPerDay, "ok", today)}

C22_Claim ==
  [][(op'.kind \in Mutators /\ Logged(log', "save-failed", "")) =>
       /\ ~escaped'
       /\ \E m \in Effects(op'.kind) :
            [state' EXCEPT !.humanAge = 0] = [m.state EXCEPT !.humanAge = 0]
       /\ file' = file]_vars

\* ------------------------------------------------------------------ C23
\* C23: canPost() answers true when no post was ever recorded, false at
\* every instant less than 30 minutes after the latest updateLastPostTime()
\* and true from 30 minutes after it on; it reads the clock when called and
\* changes nothing, so the answer turns true as time passes, with no other
\* operation in between.
C23_Cooldown ==
  [][op'.kind = "canPost" =>
       /\ state.lastPostTime = NullStamp => answer'.yes
       /\ state.lastPostTime # NullStamp =>
             (answer'.yes <=> clock - state.lastPostTime >= 30 * TicksPerMinute)
       /\ state' = state /\ file' = file /\ clock' = clock]_vars

\* one post, then nothing but time for exactly 30 minutes: canPost() is true
C23_Witness ==
  /\ op.kind = "canPost"
  /\ answer.yes
  /\ state.stats.totalPosts = 1
  /\ clock = state.lastPostTime + 30 * TicksPerMinute

\* ------------------------------------------------------------------ C24
\* what getMinutesUntilCanPost() returns at time t with the state as it is
MinutesAt(t) == getMinutesUntilCanPost(Store, t).answer.val[1]

\* C24 as stated: after a post, a later call returns a smaller value than
\* every earlier call that has not returned 0, the value is never negative,
\* and it is 0 exactly when canPost() is true.
C24_Original ==
  [][op'.kind = "getMinutesUntilCanPost" =>
       /\ state.lastPostTime # NullStamp =>
             \A t \in state.lastPostTime..(clock - 1) :
               MinutesAt(t) > 0 => answer'.val[1] < MinutesAt(t)
       /\ answer'.val[1] >= 0
       /\ answer'.val[1] = 0 <=> canPost(Store, clock).answer.yes]_vars

\* C24, amended: after a post, a later call never returns a larger value
\* than an earlier one, and returns a smaller one when a minute or more lies
\* between the two and the earlier one was not 0; the value is never
\* negative, and it is 0 exactly when canPost() is true.
C24_Amended ==
  [][op'.kind = "getMinutesUntilCanPost" =>
       /\ state.lastPostTime # NullStamp =>
             \A t \in state.lastPostTime..(clock - 1) :
               /\ answer'.val[1] <= MinutesAt(t)
               /\ (clock - t >= TicksPerMinute /\ MinutesAt(t) > 0) =>
                     answer'.val[1] < MinutesAt(t)
       /\ answer'.val[1] >= 0
       /\ answer'.val[1] = 0 <=> canPost(Store, clock).answer.yes]_vars

\* half a minute after a post the call returns 30, as at the post
C24_Witness ==
  /\ op.kind = "getMinutesUntilCanPost"
  /\ state.lastPostTime # NullStamp
  /\ clock = state.lastPostTime + 1
  /\ answer.val = <<30>>
  /\ MinutesAt(state.lastPostTime) = 30

\* ------------------------------------------------------------------ C25
\* C25: with dailyFollowCount = 5 recorded on date D, canFollowToday(5)
\* answers false and changes nothing at every call on D; the first call on
\* a later date sets dailyFollowCount to 0 and lastFollowDate to that date
\* and answers true, however short the time since the last follow.
C25_DailyReset ==
  [][op'.kind = "canFollowToday" =>
       /\ (state.dailyFollowCount = 5 /\ state.lastFollowDate = today) =>
             (~answer'.yes /\ state' = state)
       /\ (state.lastFollowDate # NullStamp /\ state.lastFollowDate < today) =>
             /\ state'.dailyFollowCount = 0
             /\ state'.lastFollowDate = today
             /\ answer'.yes]_vars

\* five follows on the first day, the last one two minutes before
\* midnight; at midnight canFollowToday() has answered true
C25_Witness ==
  /\ op.kind = "canFollowToday"
  /\ answer.yes
  /\ today = 2
  /\ Len(state.followedMolties) = 5
  /\ state.dailyFollowCount = 0
  /\ state.lastFollowDate = 2
  /\ clock - state.lastFollowTime = 2 * TicksPerMinute

\* ------------------------------------------------------------------ C26
\* C26: the agent follows at most 5 peers a day: dailyFollowCount is never
\* above 5, and no more than 5 follow calls succeed on one date.
C26_Claim ==
  /\ state.dailyFollowCount <= 5
  /\ \A d \in 1..today : Cardinality(FollowsOn({d}, TRUE)) <= 5

\* ------------------------------------------------------------------ C27
\* C27: the date the daily count goes by is the local calendar date, in
\* every time zone: canFollowToday() resets the count exactly when the
\* local date differs from lastFollowDate, and a follow is recorded under
\* the local date.
C27_Claim ==
  [][/\ op'.kind = "canFollowToday" =>
          IF state.lastFollowDate # localDate
          THEN state'.lastFollowDate = localDate /\ state'.dailyFollowCount = 0
          ELSE state' = state
     /\ (op'.kind = "markFollowed" /\ state' # state) => state'.lastFollowDate = localDate]_vars

\* ------------------------------------------------------------------ C28
\* the weighted sum of the claim, over the counters of p's record
WeightedSum(p) ==
  LET a == state.moltyAffinities[p]
  IN a.repliedToMe * 3 + a.iRepliedTo * 2 + a.iUpvotedPosts * 2 + a.iUpvotedComments * 1
       + a.sameSubmoltActivity * 1

\* C28: calculateAffinityScore(p) is repliedToMe*3 + iRepliedTo*2 +
\* iUpvotedPosts*2 + iUpvotedComments*1 + sameSubmoltActivity*1 over p's
\* record, and 0 for a peer without a record; a peer whose five counters
\* are all 1 scores 9.
C28_Claim ==
  [][\A p \in Scored \cup {Stranger} \cup ProtoNames :
       (op'.kind = "calculateAffinityScore" /\ op'.task = ToString(p)) =>
          /\ p \notin DOMAIN state.moltyAffinities => answer'.val = <<0>>
          /\ p \in DOMAIN state.moltyAffinities => answer'.val = <<WeightedSum(p)>>
          /\ (/\ p \in DOMAIN state.moltyAffinities
              /\ \A c \in Counters : state.moltyAffinities[p][c] = 1) => answer'.val = <<9>>
          /\ state' = state]_vars

\* ------------------------------------------------------------------ C29
\* the score of the claim, for any name
ScoreOf(p) == IF p \in DOMAIN state.moltyAffinities THEN WeightedSum(p) ELSE 0

\* C29: getFollowCandidates(threshold) returns exactly the peers with a
\* record whose score is at least the threshold and who are not in
\* followedMolties, each once, in order of non-increasing score, and
\* changes nothing; a peer once marked as followed stays marked, so it is
\* never returned again.
C29_Candidates ==
  [][/\ \A p \in Rated : Includes(state.followedMolties, p) => Includes(state'.followedMolties, p)
     /\ \A t \in Thresholds :
          (op'.kind = "getFollowCandidates" /\ op'.task = ToString(t)) =>
             LET r == answer'.val
             IN /\ {r[i] : i \in 1..Len(r)} =
                     {p \in DOMAIN state.moltyAffinities :
                        ScoreOf(p) >= t /\ ~Includes(state.followedMolties, p)}
                /\ \A i, j \in 1..Len(r) : i < j => r[i] # r[j] /\ ScoreOf(r[i]) >= ScoreOf(r[j])
                /\ state' = state
                /\ file' = file]_vars

\* peer 1 is followed and left out for all its score; peer 3, recorded
\* last, is returned before peer 2 for its higher score
C29_Witness ==
  /\ op = Op("getFollowCandidates", "3")
  /\ Includes(state.followedMolties, 1)
  /\ ScoreOf(1) >= 3
  /\ answer.val = <<3, 2>>
  /\ ScoreOf(3) > ScoreOf(2)

\* ------------------------------------------------------------------ C30
\* C30 as stated: for a mood with sleepHour = 26 and wakeUpHour = 4, hour 3
\* is sleep time, hour 5 is not, and hour 25 is sleep time.
C30_Original ==
  answer.kind = "isSleepTime" =>
    /\ answer.val = <<3, 26, 4>> => answer.yes
    /\ answer.val = <<5, 26, 4>> => ~answer.yes
    /\ answer.val = <<25, 26, 4>> => answer.yes

\* C30, amended: for a mood with sleepHour = 26 and wakeUpHour = 4, hour 3
\* is sleep time, hour 5 is not, and hour 25 is not: the hour is taken as
\* it is, and the window is from 2 to 4.
C30_Amended ==
  answer.kind = "isSleepTime" =>
    /\ answer.val = <<3, 26, 4>> => answer.yes
    /\ answer.val = <<5, 26, 4>> => ~answer.yes
    /\ answer.val = <<25, 26, 4>> => ~answer.yes

\* hour 25 asked of that mood
C30_Witness ==
  /\ op = Op("isSleepTime", "25")
  /\ answer = Answer("isSleepTime", FALSE, <<25, 26, 4>>)

\* every response of the call carried a retryable status
AllRetryable(c) ==
  /\ c.responses # <<>>
  /\ \A i \in 1..Len(c.responses) : c.responses[i].status \in retryableStatuses

Increasing(d) == \A i \in 1..(Len(d) - 1) : d[i] < d[i + 1]

PostAwaits == {"getMe", "judging", "upvoting", "generating", "commenting"}

\* the step is the answer of status st to the call awaited
AnsweredWith(st) == feed.at # "idle" /\ op'.kind = feed.at /\ op'.task = ToString(st)

\* C32: a call answered with a non-retryable status is not sent again and
\* waits for nothing: the error is raised at once; when that happens while a
\* feed post is processed, the failure is logged, the post is marked seen
\* and the loop goes on, so that at the end of the cycle every post of the
\* feed has been dealt with
C32_Terminal ==
  /\ [][\A st \in {400, 404} :
          (AnsweredWith(st) /\ feed.at \in PostAwaits) =>
             /\ ~(call'.result = "pending" /\ call'.responses # <<>>)
             /\ \A i \in 1..Len(feed'.sleeps) : feed'.sleeps[i].why = "pause"
             /\ Logged(log', "post-failed", "")
             /\ Includes(state'.seenPostIds, Head(feed.left).id)
             /\ Len(feed'.left) < Len(feed.left)
             /\ feed'.at # "idle" => feed'.passed = Append(feed.passed, Head(feed'.left).id)]_vars
  /\ [](feed.at = "idle" /\ ~feed.threw =>
          \A i \in 1..Len(feed.posts) : Includes(state.seenPostIds, feed.posts[i].id))

\* the model refused to judge the first post of two, and the second is
\* being judged
C32_Witness ==
  /\ op = Op("judging", "400")
  /\ Len(feed.posts) = 2
  /\ Len(feed.left) = 1
  /\ feed.at = "judging"
  /\ Len(call.responses) = 0
  /\ Len(feed.passed) = 2

\* ---- C33: a rate-limited write is slept on and not issued again
\* the awaits of a cycle at which a write is in flight
WriteStages == {"upvoting", "commenting", "creatingPost"}

\* the fixed fallback of the stage, in ms: 60 s for createPost, 20 s for the
\* writes of processPost
Fallback(at) == IF at = "creatingPost" THEN 60000 ELSE 20000

\* the duration a rate-limit answer carries, in ms, or the fallback of the stage
Carried(r, at) ==
  IF r.retry_after_seconds # 0 THEN r.retry_after_seconds * 1000
  ELSE IF r.retry_after_minutes # 0 THEN r.retry_after_minutes * 60000
  ELSE Fallback(at)

\* C33: when a write of the cycle is answered with a rate-limit signal the
\* engine sleeps exactly the retry-after duration the response carries, or the
\* fixed fallback when it carries none (20 s for a write of processPost, 60 s
\* for createPost), and the write is not issued again within the cycle
C33_Claim ==
  /\ [][\A r \in CycleResponses("Moltbook") :
          (r.status = 429 /\ feed.at \in WriteStages /\ op' = Op(feed.at, Told(r))) =>
             \E i \in 1..Len(feed'.sleeps) :
                feed'.sleeps[i] = [why |-> "rate-limit", ms |-> Carried(r, feed.at)]]_vars
  /\ [](\A i, j \in 1..Len(feed.writes) :
          (i < j /\ feed.writes[i].cycle = feed.writes[j].cycle
                 /\ feed.writes[i].kind = feed.writes[j].kind
                 /\ feed.writes[i].post = feed.writes[j].post) => feed.writes[i].ok)

\* ---- C34: one live timer per task, none during its run
\* C34: in every reachable state each registered task has at most one live
\* timer, and none while its fn is executing, whatever the sequence of
\* start(), stop(), timer firings and completions, a stop() followed by a
\* start() during a run included
C34_Claim ==
  \A t \in Tasks :
     /\ Cardinality(timers[t]) <= 1
     /\ isRunning[t] => timers[t] = {}

\* ---- C35: the write queue drains
Queued(j) == \E i \in 1..Len(queue) : queue[i] = j

Popped(j) == ~Queued(j) /\ \E i \in 1..Len(sent) : sent[i] = j

C36_Claim ==
  (answer.kind = "getActivityLevel" /\ answer.val[1] = 23) => answer.yes

\* ---- C37: a post is processed once
\* the loop of checkFeed leaves the post it stands at
MovesOn == feed.at \in PostAwaits /\ (feed'.at = "idle" \/ Len(feed'.left) < Len(feed.left))

\* C37: every post that is unseen when the loop of checkFeed reaches it is
\* marked seen before the loop moves to the next post, whether processPost
\* returned, failed or was rate-limited; so, its ID staying in the seen list, a
\* post is passed to processPost at most once over all cycles, and a post
\* whose processing failed is not passed again
C37_SeenOnce ==
  /\ [][MovesOn => Includes(state'.seenPostIds, Head(feed.left).id)]_vars
  /\ [][\A i \in 1..Len(feed'.passed) :
          i > Len(feed.passed) => ~Includes(state.seenPostIds, feed'.passed[i])]_vars
  /\ [](\A i, j \in 1..Len(feed.passed) :
          (i < j /\ Includes(state.seenPostIds, feed.passed[i])) => feed.passed[i] # feed.passed[j])

\* the second cycle was offered the post whose upvote failed in the first
\* cycle, and has skipped it
C37_Witness ==
  /\ op = Op("getPosts", "200")
  /\ feed.cycles = 2 /\ feed.at = "idle"
  /\ Len(feed.posts) = 1 /\ feed.posts[1].id = 1
  /\ feed.passed = <<1>>
  /\ Len(feed.writes) = 1 /\ ~feed.writes[1].ok /\ feed.writes[1].cycle = 1

\* ---- C38: one upvote and one comment for a post
\* a write of the kind is issued by the step
Issues(kind) ==
  /\ Len(feed'.writes) = Len(feed.writes) + 1
  /\ feed'.writes[Len(feed'.writes)].kind = kind

\* the writes of the kind for the post that have returned
LandedFor(kind, id) ==
  {i \in 1..Len(feed.writes) : feed.writes[i] = [feed.writes[i] EXCEPT !.kind = kind, !.post = id, !.ok = TRUE]}

\* the ID joins the list at the step
Joins(list, id) == Includes(state'[list], id) /\ ~Includes(state[list], id)

\* C38: the remote upvote is never issued for a post whose ID is in the
\* upvoted list, nor the top-level comment for a post whose ID is in the
\* commented list; an ID joins those lists only when the remote write for it
\* has returned; so each post gets at most one upvote and one comment (the
\* lists, which keep 500 IDs, never being full)
C38_OnceEach ==
  /\ [][/\ Issues("upvote") => ~Includes(state.upvotedPostIds, feed'.writes[Len(feed'.writes)].post)
        /\ Issues("comment") => ~Includes(state.commentedPostIds, feed'.writes[Len(feed'.writes)].post)]_vars
  /\ [][\A id \in 1..MaxCycles :
          /\ Joins("upvotedPostIds", id) =>
                /\ op' = Op("upvoting", "200")
                /\ feed.writes[Len(feed.writes)] = [kind |-> "upvote", post |-> id, cycle |-> feed.cycles, ok |-> FALSE]
                /\ feed'.writes[Len(feed.writes)].ok
          /\ Joins("commentedPostIds", id) =>
                /\ op' = Op("commenting", "200")
                /\ feed.writes[Len(feed.writes)] = [kind |-> "comment", post |-> id, cycle |-> feed.cycles, ok |-> FALSE]
                /\ feed'.writes[Len(feed.writes)].ok]_vars
  /\ [](\A id \in 1..MaxCycles, kind \in {"upvote", "comment"} : Cardinality(LandedFor(kind, id)) <= 1)

\* the post was upvoted in the first cycle, its ID has left the seen list, and
\* the second cycle has judged it worth an upvote and has not issued one
C38_Witness ==
  /\ op = Op("judging", "200")
  /\ feed.cycles = 2 /\ feed.passed = <<1, 1>>
  /\ feed.judgment.should_upvote
  /\ state.upvotedPostIds = <<1>>
  /\ Len(feed.writes) = 1 /\ feed.writes[1] = [kind |-> "upvote", post |-> 1, cycle |-> 1, ok |-> TRUE]

\* ---- C39: the throttle on comments to one author
\* the targets recorded by the landed comments of the feed, in their order
RECURSIVE Recorded(_)
Recorded(writes) ==
  IF writes = <<>> THEN <<>>
  ELSE LET w == writes[Len(writes)]
           before == Recorded(SubSeq(writes, 1, Len(writes) - 1))
       IN IF w.kind = "comment" /\ w.ok THEN Append(before, AuthorAt(w.post)) ELSE before

\* no author occurs more than twice among any five consecutive entries
AtMostTwice(l) ==
  \A i \in 1..Len(l) : \A a \in {l[i]} :
     Cardinality({j \in i..(i + 4) : j <= Len(l) /\ l[j] = a}) <= 2

\* C39: recentCommentTargets never holds more than 10 entries, the oldest
\* dropped first (it is the last 10 of the targets recorded); a feed comment
\* to an author is only sent when the author occurs fewer than 2 times among
\* the 5 most recent targets; so among any 5 consecutive recorded targets no
\* author occurs more than 2 times
C39_Throttle ==
  /\ [](/\ Len(state.recentCommentTargets) <= 10
        /\ state.recentCommentTargets = SliceLast(Recorded(feed.writes), 10)
        /\ AtMostTwice(Recorded(feed.writes)))
  /\ [][Issues("comment") =>
          filterCount(SliceLast(state.recentCommentTargets, 5),
                      AuthorAt(feed'.writes[Len(feed'.writes)].post)) < 2]_vars

\* the eleventh comment of the feed has landed and the oldest target is gone
C39_Witness ==
  /\ op = Op("commenting", "200")
  /\ Len(Recorded(feed.writes)) = 11
  /\ Len(state.recentCommentTargets) = 10
  /\ state.recentCommentTargets = Tail(Recorded(feed.writes))
  /\ Len(feed.passed) > 11
====
